---- MODULE Spec2Model ----
(***************************************************************************)
(* A model of jax/random.py: the Threefry-2x32 counter-based hash, the     *)
(* key operations built on it (PRNGKey, split, fold_in), the bit           *)
(* generator _random_bits and the uniform sampler in float32 and float64,  *)
(* with the process-wide jax_enable_x64 setting that uniform reads; then   *)
(* randint, shuffle and the rejection loop of gamma; the dtype checks of   *)
(* threefry_2x32 and bernoulli; the arguments normal and exponential hand  *)
(* to erf_inv and log; and the keys each sampler uses, as paths of         *)
(* splits from the caller's key.                                           *)
(*                                                                         *)
(* TLC's integers are 32-bit signed, so a uint32 value is held as a pair   *)
(* <<hi, lo>> of 16-bit limbs and a 64-bit value as four limbs, most       *)
(* significant first.  All arithmetic is done limb by limb with the wrap   *)
(* the hardware integer types have.  The floats of gamma are held on a     *)
(* grid of step 2^-10 with NaN and the two infinities beside it.  For a    *)
(* scalar gamma the normal and uniform draws of its loop are inputs; for   *)
(* gamma over an array they are computed from the keys of each lane.       *)
(***************************************************************************)
EXTENDS Integers, Sequences, FiniteSets, TLC

\* op, args, res: the call in progress (or "none"), its arguments and its
\* result; saved: an earlier call and its result, kept by an observer;
\* x64: the process-wide jax_enable_x64 setting; locals: the local
\* variables of the call that has run (randint, shuffle, normal,
\* exponential, the key uses of a sampler) or is running (the loop state of
\* gamma, for one lane or for all lanes of an array)
VARIABLES op, args, res, saved, x64, locals

vars == <<op, args, res, saved, x64, locals>>

---------------------------------------------------------------------------
(* uint32 arithmetic on limb pairs                                         *)

Limb == 2^16

\* onp.uint32(n) for a literal 0 <= n < 2^31
U32(n) == <<n \div Limb, n % Limb>>

\* Bitwise operations on 4-bit digits and on 16-bit limbs.
RECURSIVE XorBits(_, _)
XorBits(a, b) == IF a = 0 THEN b
                 ELSE IF b = 0 THEN a
                 ELSE ((a + b) % 2) + 2 * XorBits(a \div 2, b \div 2)

RECURSIVE AndBits(_, _)
AndBits(a, b) == IF a = 0 \/ b = 0 THEN 0
                 ELSE (IF a % 2 = 1 /\ b % 2 = 1 THEN 1 ELSE 0)
                      + 2 * AndBits(a \div 2, b \div 2)

Xor16(a, b) ==
    XorBits(a % 16, b % 16)
  + 16 * XorBits((a \div 16) % 16, (b \div 16) % 16)
  + 256 * XorBits((a \div 256) % 16, (b \div 256) % 16)
  + 4096 * XorBits(a \div 4096, b \div 4096)

And16(a, b) ==
    AndBits(a % 16, b % 16)
  + 16 * AndBits((a \div 16) % 16, (b \div 16) % 16)
  + 256 * AndBits((a \div 256) % 16, (b \div 256) % 16)
  + 4096 * AndBits(a \div 4096, b \div 4096)

\* a | b = (a ^ b) + (a & b)
Or16(a, b) == Xor16(a, b) + And16(a, b)

\* The operations on words and the steps of the hash take their operands as
\* values: CHOOSE r \in {e(a) : a \in {x}} : TRUE is e(x) with x evaluated
\* once.

\* x + y on uint32: the sum modulo 2^32
add32(x, y) ==
  CHOOSE r \in {<<(a[1] + b[1] + ((a[2] + b[2]) \div Limb)) % Limb,
                  (a[2] + b[2]) % Limb>> : a \in {x}, b \in {y}} : TRUE

xor32(x, y) ==
  CHOOSE r \in {<<Xor16(a[1], b[1]), Xor16(a[2], b[2])>> :
                a \in {x}, b \in {y}} : TRUE

or32(x, y) ==
  CHOOSE r \in {<<Or16(a[1], b[1]), Or16(a[2], b[2])>> :
                a \in {x}, b \in {y}} : TRUE

and32(x, y) ==
  CHOOSE r \in {<<And16(a[1], b[1]), And16(a[2], b[2])>> :
                a \in {x}, b \in {y}} : TRUE

\* x << d on uint32, 0 <= d <= 32: the bits shifted out at the top are lost
shift_left(x, d) ==
  IF d >= 32 THEN <<0, 0>>
  ELSE IF d >= 16 THEN <<(x[2] % 2^(32 - d)) * 2^(d - 16), 0>>
  ELSE <<(x[1] % 2^(16 - d)) * 2^d + x[2] \div 2^(16 - d),
         (x[2] % 2^(16 - d)) * 2^d>>

\* lax.shift_right_logical(x, d) on uint32, 0 <= d <= 32: zeros come in
shift_right_logical(x, d) ==
  IF d >= 32 THEN <<0, 0>>
  ELSE IF d >= 16 THEN <<0, x[1] \div 2^(d - 16)>>
  ELSE <<x[1] \div 2^d,
         (x[1] % 2^d) * 2^(16 - d) + x[2] \div 2^d>>

---------------------------------------------------------------------------
(* The hash: threefry_2x32                                                 *)

\* a rotation that drops the bits shifted out at the top
rotate_left_lossy(x, d) == shift_left(x, d)

\* _make_rotate_left(uint32): nbits = iinfo(uint32).bits = 32
rotate_left(x, d) == or32(shift_left(x, d), shift_right_logical(x, 32 - d))

\* the rotation amounts with the last two exchanged
rotations_swapped == <<13, 15, 26, 6, 17, 29, 24, 16>>

\* rotations = [13, 15, 26, 6, 17, 29, 16, 24]
rotations == <<13, 15, 26, 6, 17, 29, 16, 24>>

\* ks = [key1, key2, key1 ^ key2 ^ 0x1BD11BDA]
key_schedule(key1, key2) ==
  <<key1, key2, xor32(xor32(key1, key2), <<7121, 7130>>)>>

\* apply_round on one lane v = <<v[0], v[1]>> of the two half arrays.  The
\* lane is bound to its value before the round is computed, which keeps the
\* evaluation of the twenty chained rounds shallow.
round_body(v, rot) ==
  LET v0 == add32(v[1], v[2])
      v1 == rotate_left(v[2], rot)
  IN  <<v0, xor32(v0, v1)>>

apply_round(v, rot) == CHOOSE r \in {round_body(w, rot) : w \in {v}} : TRUE

\* for r in rs: x = apply_round(x, r)
RECURSIVE apply_rounds(_, _)
apply_rounds(x, rs) ==
  IF rs = <<>> THEN x
  ELSE apply_rounds(apply_round(x, Head(rs)), Tail(rs))

\* for r in rotations[:4]: x = apply_round(x, r)
rounds_lo(x) == apply_rounds(x, SubSeq(rotations, 1, 4))

\* for r in rotations[4:]: x = apply_round(x, r)
rounds_hi(x) == apply_rounds(x, SubSeq(rotations, 5, 8))

\* x[0] = x[0] + ka ; x[1] = x[1] + kb + uint32(n)
inject(x, ka, kb, n) ==
  CHOOSE r \in {<<add32(w[1], ka), add32(add32(w[2], kb), U32(n))>> : w \in {x}} :
    TRUE

\* the body of threefry_2x32 on one lane <<x[0][i], x[1][i]>>
threefry_lane(ks, x) ==
  LET a0 == <<add32(x[1], ks[1]), add32(x[2], ks[2])>>
      a1 == inject(rounds_lo(a0), ks[2], ks[3], 1)
      a2 == inject(rounds_hi(a1), ks[3], ks[1], 2)
      a3 == inject(rounds_lo(a2), ks[1], ks[2], 3)
      a4 == inject(rounds_hi(a3), ks[2], ks[3], 4)
      a5 == inject(rounds_lo(a4), ks[3], ks[1], 5)
  IN  a5

\* x = split(count, 2) and out = concatenate(x): lane i of the rounds is
\* <<first half[i], second half[i]>>, and the output is the first words of
\* the lanes followed by their second words
hash_halves(ks, x) ==
  LET half == Len(x) \div 2
  IN  [i \in 1 .. 2 * half |->
         IF i <= half THEN threefry_lane(ks, <<x[i], x[i + half]>>)[1]
         ELSE threefry_lane(ks, <<x[i - half], x[i]>>)[2]]

\* the zero word is put before the counter instead of after it
threefry_2x32_pad_front(keypair, count) ==
  CHOOSE out \in
    {IF Len(c) % 2 = 1
       THEN SubSeq(hash_halves(ks, <<<<0, 0>>>> \o c), 2, Len(c) + 1)
       ELSE hash_halves(ks, c) :
     ks \in {key_schedule(keypair[1], keypair[2])}, c \in {count}} : TRUE

\* threefry_2x32(keypair, count) on a flat uint32 array count: an array of
\* odd size is padded with one zero word, whose output word is dropped
threefry_2x32(keypair, count) ==
  CHOOSE out \in
    {IF Len(c) % 2 = 1
       THEN SubSeq(hash_halves(ks, Append(c, <<0, 0>>)), 1, Len(c))
       ELSE hash_halves(ks, c) :
     ks \in {key_schedule(keypair[1], keypair[2])}, c \in {count}} : TRUE

---------------------------------------------------------------------------
(* 64-bit integers: four limbs, most significant first                     *)

\* a * b for two limbs as the limb pair <<high, low>>, by 8-bit halves
MulLimb(a, b) ==
  LET a1 == a \div 256
      a0 == a % 256
      b1 == b \div 256
      b0 == b % 256
      mid == a1 * b0 + a0 * b1
      low == a0 * b0 + (mid % 256) * 256
  IN  <<a1 * b1 + mid \div 256 + low \div Limb, low % Limb>>

\* x + y modulo 2^64
add64_limbs(x, y) ==
  LET s4 == x[4] + y[4]
      s3 == x[3] + y[3] + s4 \div Limb
      s2 == x[2] + y[2] + s3 \div Limb
      s1 == x[1] + y[1] + s2 \div Limb
  IN  <<s1 % Limb, s2 % Limb, s3 % Limb, s4 % Limb>>

add64(x, y) == CHOOSE r \in {add64_limbs(a, b) : a \in {x}, b \in {y}} : TRUE

\* x * y modulo 2^64, column by column
mul64_limbs(x, y) ==
  LET p44 == MulLimb(x[4], y[4])
      p43 == MulLimb(x[4], y[3])
      p34 == MulLimb(x[3], y[4])
      p42 == MulLimb(x[4], y[2])
      p33 == MulLimb(x[3], y[3])
      p24 == MulLimb(x[2], y[4])
      p41 == MulLimb(x[4], y[1])
      p32 == MulLimb(x[3], y[2])
      p23 == MulLimb(x[2], y[3])
      p14 == MulLimb(x[1], y[4])
      c4 == p44[2]
      c3 == p44[1] + p43[2] + p34[2] + c4 \div Limb
      c2 == p43[1] + p34[1] + p42[2] + p33[2] + p24[2] + c3 \div Limb
      c1 == p42[1] + p33[1] + p24[1] + p41[2] + p32[2] + p23[2] + p14[2]
            + c2 \div Limb
  IN  <<c1 % Limb, c2 % Limb, c3 % Limb, c4 % Limb>>

mul64(x, y) == CHOOSE r \in {mul64_limbs(a, b) : a \in {x}, b \in {y}} : TRUE

\* x >= y for unsigned 64-bit values
ge64(x, y) ==
  \E a \in {x}, b \in {y} :
    \/ a = b
    \/ \E i \in 1 .. 4 : /\ a[i] > b[i]
                         /\ \A j \in 1 .. i - 1 : a[j] = b[j]

and64(x, y) ==
  CHOOSE r \in {<<And16(a[1], b[1]), And16(a[2], b[2]), And16(a[3], b[3]),
                  And16(a[4], b[4])>> : a \in {x}, b \in {y}} : TRUE

or64(x, y) ==
  CHOOSE r \in {<<Or16(a[1], b[1]), Or16(a[2], b[2]), Or16(a[3], b[3]),
                  Or16(a[4], b[4])>> : a \in {x}, b \in {y}} : TRUE

\* onp.right_shift(x, 32) on int64: arithmetic, the sign bit fills the top
right_shift64_32(x) ==
  LET fill == IF x[1] >= 2^15 THEN Limb - 1 ELSE 0
  IN  <<fill, fill, x[1], x[2]>>

\* x << uint64(32)
shift_left64_32(x) == <<x[3], x[4], 0, 0>>

\* lax.convert_element_type(x, uint64) for a uint32 x
to_uint64(x) == <<0, 0, x[1], x[2]>>

\* lax.convert_element_type(x, uint32) for a 64-bit x: the low 32 bits
to_uint32(x) == <<x[3], x[4]>>

\* a Python int n with 0 <= n < 2^31 as a 64-bit value
int64_of(n) == <<0, 0, n \div Limb, n % Limb>>

---------------------------------------------------------------------------
(* Keys                                                                    *)

\* A Python int seed, -2^63 <= seed < 2^63, is [neg, mag] with mag its
\* absolute value in four limbs.  numpy holds it as the int64 two's
\* complement: -m is (2^64 - 1 - m) + 1 modulo 2^64.
as_int64(seed) ==
  IF seed.neg
    THEN add64([i \in 1 .. 4 |-> Limb - 1 - seed.mag[i]], <<0, 0, 0, 1>>)
    ELSE seed.mag

mask32 == <<0, 0, Limb - 1, Limb - 1>>

\* the seed taken as a 32-bit value: the top 32 bits are dropped
PRNGKey_low_word(seed) ==
  <<<<0, 0>>, to_uint32(and64(as_int64(seed), mask32))>>

\* PRNGKey(seed) for a Python int:
\*   k1 = convert(onp.bitwise_and(onp.right_shift(seed, 32), 0xFFFFFFFF))
\*   k2 = convert(lax.bitwise_and(seed, 0xFFFFFFFF))
\*   concatenate([k1, k2])
PRNGKey(seed) ==
  LET k1 == to_uint32(and64(right_shift64_32(as_int64(seed)), mask32))
      k2 == to_uint32(and64(as_int64(seed), mask32))
  IN  <<k1, k2>>

\* key.shape == (2,) and key.dtype == uint32
_is_prng_key(key) == /\ key \in Seq(Seq(0 .. Limb - 1))
                     /\ Len(key) = 2
                     /\ \A i \in 1 .. 2 : Len(key[i]) = 2

\* counters that resume after the calls made so far
iota_resumed(n) == [i \in 1 .. n |-> U32(i - 1 + Len(saved))]

\* lax.iota(uint32, n) for 0 <= n < 2^31
iota(n) == [i \in 1 .. n |-> U32(i - 1)]

\* row j holds word j of the first half and word j of the second half
reshape_pairs_halves(flat, num) ==
  CHOOSE r \in {[j \in 1 .. num |-> <<w[j], w[num + j]>>] : w \in {flat}} : TRUE

\* lax.reshape(flat, (num, 2)): row j holds flat[2j], flat[2j + 1]
reshape_pairs(flat, num) ==
  CHOOSE r \in {[j \in 1 .. num |-> <<w[2 * j - 1], w[2 * j]>>] :
                w \in {flat}} : TRUE

\* one pair of counters hashed once and handed to every child
_split_broadcast(key, num) == [j \in 1 .. num |-> threefry_2x32(key, iota(2))]

\* split(key, num) = _split(key, num): counts 0 .. 2 num - 1 are hashed and
\* the 2 num output words reshaped to (num, 2)
_split(key, num) == reshape_pairs(threefry_2x32(key, iota(num * 2)), num)

split(key, num) == _split(key, num)

\* the data folded in as a single 32-bit word
_fold_in_low_word(key, data) ==
  threefry_2x32(key, <<<<0, 0>>, PRNGKey(data)[2]>>)

\* the low word of the data is the first counter word
_fold_in_low_first(key, data) ==
  threefry_2x32(key, <<PRNGKey(data)[2], PRNGKey(data)[1]>>)

\* key and data exchanged: the data keys the hash of the key
_fold_in_swapped(key, data) == threefry_2x32(PRNGKey(data), key)

\* fold_in(key, data) = _fold_in(key, data): key2 = PRNGKey(data) is the
\* counter array hashed with key
_fold_in(key, data) == threefry_2x32(key, PRNGKey(data))

fold_in(key, data) == _fold_in(key, data)

---------------------------------------------------------------------------
(* Results of calls that can raise                                         *)

\* a returned array of dtype dt with the flat elements v
OkAs(dt, v) == [raised |-> "", held |-> TRUE, dtype |-> dt, value |-> v]

\* a returned uint32 array
Ok(v) == OkAs("uint32", v)

\* a returned array of more than MaxHeld elements: the call returns, and the
\* model does not hold the elements
Large(dt) == [raised |-> "", held |-> FALSE, dtype |-> dt, value |-> <<>>]

\* an exception
Raise(msg) == [raised |-> msg, held |-> FALSE, dtype |-> "", value |-> <<>>]

MaxHeld == 6

\* locals holds the local variables of the call that has run, for the
\* operations whose intermediate values are of interest
NoLocals == [fn |-> "none"]

---------------------------------------------------------------------------
(* _random_bits                                                            *)

\* onp.prod(shape), an int64
RECURSIVE shape_prod(_)
shape_prod(shape) ==
  IF shape = <<>> THEN int64_of(1)
  ELSE mul64(int64_of(Head(shape)), shape_prod(Tail(shape)))

\* max_count = (bit_width // 32) * onp.prod(shape)
max_count_of(bit_width, shape) ==
  mul64(int64_of(bit_width \div 32), shape_prod(shape))

\* onp.iinfo(onp.uint32).max
uint32_max == mask32

\* max_count >= onp.iinfo(onp.uint32).max
too_many_bits(max_count) == ge64(max_count, uint32_max)

\* a 64-bit count known to be at most MaxHeld as a number
small(x) == x[4]

fits(x) == /\ x[1] = 0 /\ x[2] = 0 /\ x[3] = 0
           /\ x[4] <= MaxHeld

\* neighbouring words paired instead of the two halves
pair64_consecutive(bits) ==
  CHOOSE r \in
    {[i \in 1 .. (Len(w) \div 2) |->
        or64(shift_left64_32(to_uint64(w[2 * i - 1])), to_uint64(w[2 * i]))] :
     w \in {bits}} : TRUE

\* bits = [convert(x, uint64) for x in np.split(bits, 2)]
\* bits = (bits[0] << uint64(32)) | bits[1]
pair64(bits) ==
  CHOOSE r \in
    {[i \in 1 .. (Len(w) \div 2) |->
        or64(shift_left64_32(to_uint64(w[i])),
             to_uint64(w[i + (Len(w) \div 2)]))] : w \in {bits}} : TRUE

\* _random_bits(key, bit_width, shape): the flat array of the result
_random_bits(key, bit_width, shape) ==
  IF ~_is_prng_key(key)
    THEN Raise("TypeError: _random_bits got invalid prng key.")
  ELSE IF bit_width \notin {32, 64}
    THEN Raise("TypeError: requires 32- or 64-bit field width.")
  ELSE CHOOSE r \in
    {IF too_many_bits(max_count)
       THEN Raise("TypeError: requesting more random bits than a single call provides.")
     ELSE IF ~fits(max_count)
       THEN Large(IF bit_width = 64 THEN "uint64" ELSE "uint32")
     ELSE LET counts == iota(small(max_count))
              bits   == threefry_2x32(key, counts)
          IN  IF bit_width = 64 THEN OkAs("uint64", pair64(bits))
              ELSE OkAs("uint32", bits) :
     max_count \in {max_count_of(bit_width, shape)}} : TRUE

---------------------------------------------------------------------------
(* float32 values and uniform                                              *)
(* A finite float32 value v with 0 <= v < 256 is held as the integer       *)
(* v * 2^23; every float32 in [2^-23 .. 256) with no bits below 2^-23 is   *)
(* such an integer with at most 24 significant bits.                       *)

\* nmant of finfo(float32)
nmant32 == 23

\* round a real n / 2^23 to the nearest float32, ties to even
round_f32_of(n) ==
  IF n < 2^24 THEN n
  ELSE LET k    == CHOOSE j \in 1 .. 7 : n \div 2^(23 + j) = 1
           q    == n \div 2^k
           r    == n % 2^k
           half == 2^(k - 1)
           up   == r > half \/ (r = half /\ q % 2 = 1)
       IN  (IF up THEN q + 1 ELSE q) * 2^k

round_f32(n) == CHOOSE r \in {round_f32_of(m) : m \in {n}} : TRUE

\* the float32 of a whole number 0 <= n < 256
f32_of_int(n) == n * 2^23

\* lax.bitcast_convert_type(bits, float32) for a uint32 bit pattern with
\* sign 0 and exponent field 127 .. 134
bitcast_f32(w) ==
  CHOOSE r \in {(2^23 + ((b[1] % 128) * Limb) + b[2])
                  * 2^(((b[1] \div 128) % 256) - 127) : b \in {w}} : TRUE

\* x - y, x + y and x * y in float32 (x >= y; one factor a whole number)
fsub(x, y) == round_f32(x - y)

fadd(x, y) == round_f32(x + y)

fmul(x, y) ==
  CHOOSE r \in {IF b % 2^23 = 0 THEN round_f32(a * (b \div 2^23))
                ELSE round_f32((a \div 2^23) * b) : a \in {x}, b \in {y}} : TRUE

fmax(x, y) ==
  CHOOSE r \in {IF a >= b THEN a ELSE b : a \in {x}, b \in {y}} : TRUE

\* the pattern of 2.0 in place of that of 1.0: 0x40000000
two_bits == <<16384, 0>>

\* onp.array(1., float32).view(onp.uint32) = 0x3F800000
one_bits == <<16256, 0>>

\* the low nmant bits kept by a mask instead of the high ones by a shift
float_bits_of_low(w) == or32(and32(w, <<2^(nmant32 - 16) - 1, Limb - 1>>), one_bits)

\* float_bits = (bits >>> (nbits - nmant)) | bits_of(1.0)
float_bits_of(w) == or32(shift_right_logical(w, 32 - nmant32), one_bits)

\* one float32 element of _uniform: the random word w scaled to the range
uniform_elem(w, minval, maxval) ==
  LET floats == fsub(bitcast_f32(float_bits_of(w)), f32_of_int(1))
  IN  fmax(minval, fadd(fmul(floats, fsub(maxval, minval)), minval))

---------------------------------------------------------------------------
(* float64 values: a finite float64 value v with 0 <= v < 256 is held as   *)
(* the 64-bit integer v * 2^52 (four limbs), at most 53 significant bits.  *)

\* nmant of finfo(float64)
nmant64 == 52

\* x >> k and x << k on four limbs, 0 <= k < 16
shr64_limbs(x, k) ==
  LET p == 2^k
      q == 2^(16 - k)
  IN  << x[1] \div p,
         ((x[1] % p) * q) + (x[2] \div p),
         ((x[2] % p) * q) + (x[3] \div p),
         ((x[3] % p) * q) + (x[4] \div p) >>

shr64(x, k) == CHOOSE r \in {shr64_limbs(a, k) : a \in {x}} : TRUE

shl64_limbs(x, k) ==
  LET p == 2^k
      q == 2^(16 - k)
  IN  << ((x[1] * p) % Limb) + (x[2] \div q),
         ((x[2] * p) % Limb) + (x[3] \div q),
         ((x[3] * p) % Limb) + (x[4] \div q),
         (x[4] * p) % Limb >>

shl64(x, k) == CHOOSE r \in {shl64_limbs(a, k) : a \in {x}} : TRUE

\* x - y modulo 2^64
sub64(x, y) ==
  CHOOSE r \in {add64(a, add64(<<Limb - 1 - b[1], Limb - 1 - b[2],
                                 Limb - 1 - b[3], Limb - 1 - b[4]>>,
                               int64_of(1))) : a \in {x}, b \in {y}} : TRUE

\* round a real n / 2^52 to the nearest float64, ties to even
round_f64_of(n) ==
  IF n[1] < 32 THEN n
  ELSE LET k    == CHOOSE j \in 1 .. 11 : n[1] \div 2^(4 + j) = 1
           q    == shr64(n, k)
           r    == n[4] % 2^k
           half == 2^(k - 1)
           up   == r > half \/ (r = half /\ q[4] % 2 = 1)
       IN  shl64(IF up THEN add64(q, int64_of(1)) ELSE q, k)

round_f64(n) == CHOOSE r \in {round_f64_of(m) : m \in {n}} : TRUE

\* the float64 of a whole number 0 <= n < 256
f64_of_int(n) == <<n * 16, 0, 0, 0>>

\* lax.bitcast_convert_type(bits, float64) for a uint64 bit pattern with
\* sign 0 and exponent field 1023 .. 1030
bitcast_f64(w) ==
  CHOOSE r \in {shl64(<<16 + (b[1] % 16), b[2], b[3], b[4]>>,
                      ((b[1] \div 16) % 2048) - 1023) : b \in {w}} : TRUE

fsub64(x, y) == round_f64(sub64(x, y))

fadd64(x, y) == round_f64(add64(x, y))

\* x * y in float64, one factor a whole number
fmul64(x, y) ==
  CHOOSE r \in {IF b[1] % 16 = 0 /\ b[2] = 0 /\ b[3] = 0 /\ b[4] = 0
                  THEN round_f64(mul64(a, int64_of(b[1] \div 16)))
                ELSE round_f64(mul64(int64_of(a[1] \div 16), b)) :
                a \in {x}, b \in {y}} : TRUE

fmax64(x, y) ==
  CHOOSE r \in {IF ge64(a, b) THEN a ELSE b : a \in {x}, b \in {y}} : TRUE

\* onp.array(1., float64).view(onp.uint64) = 0x3FF0000000000000
one_bits64 == <<16368, 0, 0, 0>>

float_bits_of64(w) == or64(shr64(w, 64 - nmant64), one_bits64)

\* one float64 element of _uniform
uniform_elem64(w, minval, maxval) ==
  LET floats == fsub64(bitcast_f64(float_bits_of64(w)), f64_of_int(1))
  IN  fmax64(minval, fadd64(fmul64(floats, fsub64(maxval, minval)), minval))

---------------------------------------------------------------------------
(* uniform                                                                 *)

\* onp.issubdtype(dtype, onp.floating)
is_floating(dtype) == dtype \in {"float16", "float32", "float64"}

\* finfo(dtype).bits
finfo_bits(dtype) ==
  IF dtype = "float64" THEN 64 ELSE IF dtype = "float32" THEN 32 ELSE 16

\* _uniform(key, shape, dtype, minval, maxval) with whole minval <= maxval
_uniform(key, shape, dtype, minval, maxval) ==
  IF ~is_floating(dtype)
    THEN Raise("TypeError: uniform only accepts floating point dtypes.")
  ELSE LET nbits == finfo_bits(dtype) IN
    IF nbits \notin {32, 64}
      THEN Raise("TypeError: uniform only accepts 32- or 64-bit dtypes.")
    ELSE CHOOSE r \in
      {IF bits.raised # "" THEN bits
       ELSE IF ~bits.held THEN Large(dtype)
       ELSE IF nbits = 32
         THEN OkAs(dtype, [i \in 1 .. Len(bits.value) |->
                             uniform_elem(bits.value[i], f32_of_int(minval),
                                          f32_of_int(maxval))])
       ELSE OkAs(dtype, [i \in 1 .. Len(bits.value) |->
                           uniform_elem64(bits.value[i], f64_of_int(minval),
                                          f64_of_int(maxval))]) :
       bits \in {_random_bits(key, nbits, shape)}} : TRUE

\* xla_bridge.canonicalize_dtype(dtype): a 64-bit dtype is replaced by its
\* 32-bit counterpart unless jax_enable_x64 is set
canonicalize_dtype(dtype) ==
  IF x64 THEN dtype
  ELSE IF dtype = "float64" THEN "float32"
  ELSE IF dtype = "int64" THEN "int32"
  ELSE IF dtype = "uint64" THEN "uint32"
  ELSE dtype

uniform(key, shape, dtype, minval, maxval) ==
  _uniform(key, shape, canonicalize_dtype(dtype), minval, maxval)

---------------------------------------------------------------------------
(* The dtype checks of threefry_2x32 and bernoulli                         *)

\* threefry_2x32 with the dtypes of key1, key2 and count: the values are
\* hashed only when all three are uint32
threefry_2x32_typed(dtypes, keypair, count) ==
  IF ~(dtypes[1] = dtypes[2] /\ dtypes[2] = dtypes[3] /\ dtypes[3] = "uint32")
    THEN Raise("TypeError: threefry_2x32 requires uint32 arguments")
  ELSE Ok(threefry_2x32(keypair, count))

\* p = quarters / 4 in float32 (times 2^23) and in float64 (times 2^52)
p_f32(quarters) == quarters * 2^(nmant32 - 2)

p_f64(quarters) == <<quarters * 2^(nmant64 - 50), 0, 0, 0>>

\* lax.lt(uniform(key, shape, lax.dtype(p)), p)
_bernoulli(key, quarters, dtype, shape) ==
  CHOOSE r \in
    {IF u.raised # "" THEN u
     ELSE IF ~u.held THEN Large("bool")
     ELSE OkAs("bool",
               [i \in 1 .. Len(u.value) |->
                  IF dtype = "float32" THEN u.value[i] < p_f32(quarters)
                  ELSE u.value[i] # p_f64(quarters)
                       /\ ge64(p_f64(quarters), u.value[i])]) :
     u \in {uniform(key, shape, dtype, 0, 1)}} : TRUE

\* p is converted to a float and compared without the check of its dtype
bernoulli_unchecked(key, quarters, pdtype, shape) ==
  _bernoulli(key, quarters,
             IF canonicalize_dtype(pdtype) = "float64" THEN "float64"
             ELSE "float32", shape)

\* bernoulli(key, p, shape) for p = quarters / 4 held in an array of dtype
\* pdtype
bernoulli(key, quarters, pdtype, shape) ==
  IF ~is_floating(canonicalize_dtype(pdtype))
    THEN Raise("TypeError: bernoulli probability p must have a floating dtype")
  ELSE _bernoulli(key, quarters, canonicalize_dtype(pdtype), shape)

---------------------------------------------------------------------------
(* randint                                                                 *)
(* An integer of width nbits is held as its bit pattern, the unsigned      *)
(* value modulo 2^nbits, in four limbs (the top two are zero for 32 bits). *)

\* one step of long division: the remainder r < y doubled, bit b added, and
\* y subtracted once if it fits (top is the bit shifted out of 64 bits)
rem_step(r, b, y) ==
  CHOOSE out \in
    {LET top == r1[1] \div 2^15
         d   == add64(shl64(r1, 1), int64_of(b))
     IN  IF top = 1 \/ ge64(d, y1) THEN sub64(d, y1) ELSE d :
     r1 \in {r}, y1 \in {y}} : TRUE

\* the division steps for bits i, i - 1, ..., 0 of one limb of the dividend
RECURSIVE rem_bits(_, _, _, _)
rem_bits(limb, y, i, r) ==
  IF i < 0 THEN r
  ELSE CHOOSE out \in {rem_bits(limb, y, i - 1, r1) :
                        r1 \in {rem_step(r, (limb \div 2^i) % 2, y)}} : TRUE

\* lax.rem(x, y) on unsigned values, limb by limb from the top; XLA defines
\* x rem 0 as x
rem64(x, y) ==
  CHOOSE r \in
    {rem_bits(a[4], b, 15, r3) :
     r3 \in {rem_bits(a[3], b, 15, r2) :
             r2 \in {rem_bits(a[2], b, 15, r1) :
                     r1 \in {rem_bits(a[1], b, 15, int64_of(0)) :
                             a \in {x}, b \in {y}},
                     a \in {x}, b \in {y}},
             a \in {x}, b \in {y}},
     a \in {x}, b \in {y}} : TRUE

\* onp.issubdtype(dtype, onp.integer)
is_integer(dtype) == dtype \in {"int16", "int32", "int64"}

\* onp.iinfo(dtype).bits
iinfo_bits(dtype) ==
  IF dtype = "int64" THEN 64 ELSE IF dtype = "int32" THEN 32 ELSE 16

\* a 64-bit pattern cut to the width nbits
wrap(nbits, x) == IF nbits = 32 THEN <<0, 0, x[3], x[4]>> ELSE x

\* lax.add, lax.sub and lax.mul in a type of width nbits
addn(nbits, x, y) == wrap(nbits, add64(x, y))

subn(nbits, x, y) == wrap(nbits, sub64(x, y))

muln(nbits, x, y) == wrap(nbits, mul64(x, y))

\* the pattern with the sign bit flipped: signed order is the unsigned order
\* of these
signed_key(nbits, x) ==
  IF nbits = 32 THEN <<0, 0, (x[3] + 2^15) % Limb, x[4]>>
  ELSE <<(x[1] + 2^15) % Limb, x[2], x[3], x[4]>>

\* lax.max on signed integers of width nbits
smax(nbits, x, y) ==
  CHOOSE r \in {IF ge64(signed_key(nbits, a), signed_key(nbits, b)) THEN a
                ELSE b : a \in {x}, b \in {y}} : TRUE

\* multiplier = lax.rem(lax.mul(multiplier, multiplier), span)
square_rem(nbits, m, span) ==
  CHOOSE r \in {rem64(muln(nbits, a, a), span) : a \in {m}} : TRUE

\* the local variables of _randint that do not depend on the key: minval and
\* maxval converted, maxval raised to minval + 1, span and multiplier
_randint_locals(minval, maxval, dtype) ==
  LET nbits == iinfo_bits(dtype)
      lo    == wrap(nbits, as_int64(minval))
      hi    == smax(nbits, addn(nbits, lo, int64_of(1)),
                    wrap(nbits, as_int64(maxval)))
      span  == subn(nbits, hi, lo)
      m16   == rem64(int64_of(2^16), span)
      m32   == square_rem(nbits, m16, span)
  IN  [fn |-> "randint", nbits |-> nbits, minval |-> lo, maxval |-> hi,
       span |-> span,
       multiplier |-> IF nbits = 64 THEN square_rem(nbits, m32, span)
                      ELSE m32]

\* an element of the raw bits as a four-limb value
raw_word(nbits, w) == IF nbits = 32 THEN to_uint64(w) ELSE w

\* an element of the result in its own width
int_elem(nbits, x) == IF nbits = 32 THEN to_uint32(x) ELSE x

\* the offset added to minval without the last reduction by span
randint_elem_unreduced(l, higher, lower) ==
  LET offset == addn(l.nbits,
                     muln(l.nbits, rem64(higher, l.span), l.multiplier),
                     rem64(lower, l.span))
  IN  int_elem(l.nbits, addn(l.nbits, l.minval, offset))

\* one element of _randint from its two raw words
randint_elem(l, higher, lower) ==
  LET offset == addn(l.nbits,
                     muln(l.nbits, rem64(higher, l.span), l.multiplier),
                     rem64(lower, l.span))
  IN  int_elem(l.nbits, addn(l.nbits, l.minval, rem64(offset, l.span)))

\* _randint(key, shape, minval, maxval, dtype)
_randint(key, shape, minval, maxval, dtype) ==
  IF ~is_integer(dtype)
    THEN Raise("TypeError: randint only accepts integer dtypes.")
  ELSE IF iinfo_bits(dtype) \notin {32, 64}
    THEN Raise("TypeError: randint only accepts 32- or 64-bit dtypes.")
  ELSE CHOOSE r \in
    {IF higher_bits.raised # "" THEN higher_bits
     ELSE IF ~higher_bits.held THEN Large(dtype)
     ELSE OkAs(dtype, [i \in 1 .. Len(higher_bits.value) |->
                         randint_elem(l, raw_word(l.nbits, higher_bits.value[i]),
                                      raw_word(l.nbits, lower_bits.value[i]))]) :
     l \in {_randint_locals(minval, maxval, dtype)},
     higher_bits \in {_random_bits(split(key, 2)[1], iinfo_bits(dtype), shape)},
     lower_bits \in {_random_bits(split(key, 2)[2], iinfo_bits(dtype), shape)}} :
    TRUE

randint(key, shape, minval, maxval, dtype) ==
  _randint(key, shape, minval, maxval, canonicalize_dtype(dtype))

---------------------------------------------------------------------------
(* normal and exponential: the arguments of erf_inv and log                *)
(* In _normal a float32 value v with -2 < v < 2 is held as the integer     *)
(* v * 2^24 and a float64 value as the 64-bit two's complement of v * 2^53 *)
(* (nextafter(-1, 0) is -1 + 2^-24 or -1 + 2^-53).                         *)

\* onp.nextafter(onp.array(-1., float32), 0.) and onp.array(1., float32)
lo32 == 1 - 2^24

hi32 == 2^24

\* rounding to float32 of a value of either sign
round_f32_signed(n) == IF n < 0 THEN -round_f32(-n) ELSE round_f32(n)

\* u = uniform(key, shape, float32, lo, hi) of _normal on the raw word w:
\* max(lo, floats * (hi - lo) + lo); hi - lo rounds to a whole number
erf_inv_arg32(w) ==
  CHOOSE u \in
    {IF lo32 >= s THEN lo32 ELSE s :
     s \in {round_f32_signed(round_f32_signed(floats * (diff \div 2^24)) + lo32) :
            floats \in {2 * fsub(bitcast_f32(float_bits_of(w)), f32_of_int(1))},
            diff \in {round_f32_signed(hi32 - lo32)}}} : TRUE

\* -x, and rounding to float64 of a value of either sign
neg64(x) == sub64(<<0, 0, 0, 0>>, x)

round_f64_signed(x) ==
  IF x[1] >= 2^15 THEN neg64(round_f64(neg64(x))) ELSE round_f64(x)

\* onp.nextafter(onp.array(-1., float64), 0.) and onp.array(1., float64)
lo64 == neg64(<<31, Limb - 1, Limb - 1, Limb - 1>>)

hi64 == <<32, 0, 0, 0>>

\* u = uniform(key, shape, float64, lo, hi) of _normal on the raw word w
erf_inv_arg64(w) ==
  CHOOSE u \in
    {IF ge64(signed_key(64, lo64), signed_key(64, s)) THEN lo64 ELSE s :
     s \in {round_f64_signed(
              add64(round_f64(mul64(floats, int64_of(diff[1] \div 32))), lo64)) :
            floats \in {shl64(fsub64(bitcast_f64(float_bits_of64(w)),
                                     f64_of_int(1)), 1)},
            diff \in {round_f64(sub64(hi64, lo64))}}} : TRUE

\* the logarithm is taken of u itself
log_arg32_of_u(w) == uniform_elem(w, f32_of_int(0), f32_of_int(1))

\* lax.sub(_constant_like(u, 1), u) of _exponential for u = uniform(key,
\* shape, dtype) on the raw word w, as the value times 2^23 or 2^52
log_arg32(w) ==
  fsub(f32_of_int(1), uniform_elem(w, f32_of_int(0), f32_of_int(1)))

log_arg64(w) ==
  fsub64(f64_of_int(1), uniform_elem64(w, f64_of_int(0), f64_of_int(1)))

\* the argument of the transcendental function of _normal (erf_inv) or
\* _exponential (log) for the raw words <<w1, w2>> of one element: the
\* 32-bit word w1, or the 64-bit word w1 w2
transcendental_arg(fn, words, dtype) ==
  IF dtype = "float32"
    THEN IF fn = "normal" THEN erf_inv_arg32(words[1])
         ELSE log_arg32(words[1])
  ELSE CHOOSE r \in
         {IF fn = "normal" THEN erf_inv_arg64(x) ELSE log_arg64(x) :
          x \in {<<words[1][1], words[1][2], words[2][1], words[2][2]>>}} : TRUE

---------------------------------------------------------------------------
(* shuffle                                                                 *)
(* An array x is [shape, held, elems]: elems are the elements in row-major *)
(* order when the model holds them, <<>> otherwise.                        *)

\* floor instead of ceil
num_rounds_floor(size) ==
  IF ge64(<<0, 0, 0, 1624>>, size) THEN 0
  ELSE IF ge64(<<0, 0, 40, 20804>>, size) THEN 1
  ELSE IF ge64(<<0, 0, Limb - 1, Limb - 2>>, size) THEN 2
  ELSE 3

\* num_rounds = int(onp.ceil(3 * onp.log(x.size) / onp.log(uint32max))) for
\* 1 <= size <= 2^32; in double precision the quotient is 0 at size 1, at
\* most 1 up to size 1625, at most 2 up to 2642245 and at most 3 up to
\* 2^32 - 1 (it is 3.0 exactly there)
num_rounds(size) ==
  IF size = <<0, 0, 0, 1>> THEN 0
  ELSE IF ge64(<<0, 0, 0, 1625>>, size) THEN 1
  ELSE IF ge64(<<0, 0, 40, 20805>>, size) THEN 2
  ELSE IF ge64(<<0, 0, Limb - 1, Limb - 1>>, size) THEN 3
  ELSE 4

\* key, subkey = split(key), once per round: the pairs <<key, subkey>>
RECURSIVE round_keys(_, _)
round_keys(key, n) ==
  IF n = 0 THEN <<>>
  ELSE CHOOSE r \in {<<ks>> \o round_keys(ks[1], n - 1) :
                     ks \in {split(key, 2)}} : TRUE

\* the product of a short sequence of small numbers
RECURSIVE small_prod(_)
small_prod(s) == IF s = <<>> THEN 1 ELSE Head(s) * small_prod(Tail(s))

\* the lines of a row-major array along axis: each a sequence of positions
axis_lines(shape, axis) ==
  LET len    == shape[axis + 1]
      stride == small_prod(SubSeq(shape, axis + 2, Len(shape)))
      outer  == small_prod(SubSeq(shape, 1, axis))
  IN  [l \in 1 .. outer * stride |->
         [k \in 1 .. len |-> (((l - 1) \div stride) * len * stride)
                               + ((k - 1) * stride) + ((l - 1) % stride) + 1]]

Perms(n) == {p \in [1 .. n -> 1 .. n] : \A i, j \in 1 .. n : p[i] = p[j] => i = j}

\* unsigned order of two 32-bit sort keys
tag_le(a, b) == a[1] < b[1] \/ (a[1] = b[1] /\ a[2] <= b[2])

\* the orders a sort may put a line in: equal keys in any order
sorting_perms(tags, line) ==
  {p \in Perms(Len(line)) :
     \A i \in 1 .. Len(line) - 1 :
       tag_le(tags[line[p[i]]], tags[line[p[i + 1]]])}

\* the place of position k: <<line, index in the line>>
place_of(lines, k) ==
  CHOOSE li \in (1 .. Len(lines)) \X (1 .. Len(lines[1])) :
    lines[li[1]][li[2]] = k

\* every line overwritten with its first sorted element
sort_key_val_clobber(tags, x, lines) ==
  {[k \in 1 .. Len(x) |->
      x[lines[place_of(lines, k)[1]][c[place_of(lines, k)[1]][1]]]] :
   c \in {c \in [1 .. Len(lines) -> Perms(Len(lines[1]))] :
            \A l \in 1 .. Len(lines) : c[l] \in sorting_perms(tags, lines[l])}}

\* _, x = lax.sort_key_val(sort_keys, x, axis): the values of each line put
\* in the order of its keys; the set of arrays the sort may return
sort_key_val(tags, x, lines) ==
  {[k \in 1 .. Len(x) |->
      x[lines[place_of(lines, k)[1]]
             [c[place_of(lines, k)[1]][place_of(lines, k)[2]]]]] :
   c \in {c \in [1 .. Len(lines) -> Perms(Len(lines[1]))] :
            \A l \in 1 .. Len(lines) : c[l] \in sorting_perms(tags, lines[l])}}

\* twice as many sort keys as elements
sort_keys_shape_doubled(x) == <<2>> \o x.shape

\* the shape of the sort keys of a round: x.shape
sort_keys_shape(x) == x.shape

\* the arrays x may be after one sort per entry of tagseq
RECURSIVE sorted_rounds(_, _, _)
sorted_rounds(x, tagseq, lines) ==
  IF tagseq = <<>> THEN {x}
  ELSE UNION {sorted_rounds(y, Tail(tagseq), lines) :
              y \in sort_key_val(Head(tagseq), x, lines)}

\* the local variables of _shuffle: the round count, the pairs <<key,
\* subkey>> of the rounds and the sort keys drawn in each round
shuffle_locals(n, ks, tagseq) ==
  [fn |-> "shuffle", num_rounds |-> n, keys |-> ks, sort_keys |-> tagseq]

\* _shuffle(key, x, axis): the outcomes [res, locals] the call may have
_shuffle(key, x, axis) ==
  UNION
    {IF size = int64_of(0)
       THEN {[res |-> Raise("OverflowError: cannot convert float infinity to integer"),
              locals |-> NoLocals]}
     ELSE IF n > 0 /\ too_many_bits(size)
       THEN {[res |-> Raise("TypeError: requesting more random bits than a single call provides."),
              locals |-> NoLocals]}
     ELSE IF ~x.held
       THEN {[res |-> Large("int32"), locals |-> shuffle_locals(n, ks, <<>>)]}
     ELSE LET tagseq == [r \in 1 .. n |->
                           _random_bits(ks[r][2], 32, sort_keys_shape(x)).value]
          IN  {[res |-> OkAs("int32", y),
                locals |-> shuffle_locals(n, ks, tagseq)] :
               y \in sorted_rounds(x.elems, tagseq, axis_lines(x.shape, axis))} :
     size \in {shape_prod(x.shape)},
     n \in {num_rounds(shape_prod(x.shape))},
     ks \in {round_keys(key, num_rounds(shape_prod(x.shape)))}}

shuffle(key, x, axis) == _shuffle(key, x, axis)

---------------------------------------------------------------------------
(* gamma                                                                   *)
(* The floating-point values of _gamma_one are held on a grid: a finite    *)
(* value v is the integer v * 2^10, every operation rounds its result to   *)
(* the grid, and the three special values are integers outside the range   *)
(* of the finite ones.  uniform and normal draws are inputs of the loop.   *)

Grid == 2^10

NaN == -(2^30) - 1

NegInf == -(2^30)

PosInf == 2^30

is_inf(a) == a = NegInf \/ a = PosInf

\* n / d rounded to the nearest whole number, d > 0
round_div(n, d) == (n + (d \div 2)) \div d

\* lax.add, lax.neg, lax.sub, lax.mul and lax.div on floats
gadd(x, y) ==
  CHOOSE r \in
    {IF a = NaN \/ b = NaN THEN NaN
     ELSE IF is_inf(a) THEN (IF is_inf(b) /\ b # a THEN NaN ELSE a)
     ELSE IF is_inf(b) THEN b
     ELSE a + b : a \in {x}, b \in {y}} : TRUE

gneg(x) == CHOOSE r \in {IF a = NaN THEN NaN ELSE -a : a \in {x}} : TRUE

gsub(x, y) == gadd(x, gneg(y))

gmul(x, y) ==
  CHOOSE r \in
    {IF a = NaN \/ b = NaN THEN NaN
     ELSE IF is_inf(a) \/ is_inf(b)
       THEN (IF a = 0 \/ b = 0 THEN NaN
             ELSE IF (a > 0) = (b > 0) THEN PosInf ELSE NegInf)
     ELSE IF a * b >= 0 THEN round_div(a * b, Grid)
     ELSE -round_div(-(a * b), Grid) : a \in {x}, b \in {y}} : TRUE

gdiv(x, y) ==
  CHOOSE r \in
    {IF a = NaN \/ b = NaN \/ (is_inf(a) /\ is_inf(b)) \/ (a = 0 /\ b = 0)
       THEN NaN
     ELSE IF is_inf(a) THEN (IF (a > 0) = (b >= 0) THEN PosInf ELSE NegInf)
     ELSE IF is_inf(b) THEN 0
     ELSE IF b = 0 THEN (IF a > 0 THEN PosInf ELSE NegInf)
     ELSE IF (a >= 0) = (b > 0)
       THEN round_div((IF a >= 0 THEN a ELSE -a) * Grid, IF b > 0 THEN b ELSE -b)
     ELSE -round_div((IF a >= 0 THEN a ELSE -a) * Grid, IF b > 0 THEN b ELSE -b) :
     a \in {x}, b \in {y}} : TRUE

\* lax.ge, lax.le and lax.eq: every comparison with NaN is false
gge(x, y) == \E a \in {x}, b \in {y} : a # NaN /\ b # NaN /\ a >= b

gle(x, y) == \E a \in {x}, b \in {y} : a # NaN /\ b # NaN /\ a <= b

geq(x, y) == \E a \in {x}, b \in {y} : a # NaN /\ b # NaN /\ a = b

\* the fraction of log2(m / Grid) for Grid <= m < 2 Grid, k bits of it, by
\* repeated squaring
RECURSIVE log2_frac(_, _)
log2_frac(m, k) ==
  IF k = 0 THEN 0
  ELSE CHOOSE r \in
         {IF sq >= 2 * Grid THEN 2^(k - 1) + log2_frac(sq \div 2, k - 1)
          ELSE log2_frac(sq, k - 1) : sq \in {(m * m) \div Grid}} : TRUE

\* log2(a / Grid) on the grid for a finite a > 0: the exponent e with
\* Grid <= a / 2^e < 2 Grid, then the fraction
log2_grid(a) ==
  CHOOSE r \in
    {e * Grid + log2_frac(IF e < 0 THEN a * 2^(-e) ELSE a \div 2^e, 10) :
     e \in {CHOOSE e \in -10 .. 19 :
               IF e < 0 THEN a * 2^(-e) \in Grid .. 2 * Grid - 1
               ELSE a \div 2^e \in Grid .. 2 * Grid - 1}} : TRUE

\* lax.log: log(0) = -inf, log of a negative number is NaN
glog(x) ==
  CHOOSE r \in
    {IF a = NaN \/ a < 0 THEN NaN
     ELSE IF a = 0 THEN NegInf
     ELSE IF a = PosInf THEN PosInf
     ELSE CHOOSE s \in {IF log2 >= 0 THEN round_div(log2 * 710, Grid)
                        ELSE -round_div((-log2) * 710, Grid) :
                        log2 \in {log2_grid(a)}} : TRUE : a \in {x}} : TRUE

\* lax.pow(b, e) for the exponents _gamma_one uses on the grid: one half,
\* and a whole number (1 / alpha for alpha = 1/2, 1/4)
RECURSIVE gpow_whole(_, _)
gpow_whole(b, n) == IF n = 0 THEN Grid ELSE gmul(b, gpow_whole(b, n - 1))

gpow(x, y) ==
  CHOOSE r \in
    {IF e = Grid \div 2
       THEN CHOOSE s \in 0 .. 8 * Grid : s * s <= b * Grid /\ b * Grid < (s + 1) * (s + 1)
     ELSE gpow_whole(b, e \div Grid) : b \in {x}, e \in {y}} : TRUE

\* _constant_like(alpha, 0), (alpha, 1), (alpha, 0.5), (alpha, 1. / 3.),
\* (alpha, 0.0331) and (alpha, -1) on the grid
zero == 0

one == Grid

one_over_two == Grid \div 2

one_over_three == round_div(Grid, 3)

squeeze_const == round_div(331 * Grid, 10000)

minus_one == -Grid

\* onp.finfo(z.dtype).tiny: the smallest positive value of the grid
tiny == 1

\* the loop never exits when V <= 0 and the test hold together only
_cond_fn_and(l) ==
  LET cond ==
        /\ gge(l.U, gsub(one, gmul(squeeze_const, gmul(l.X, l.X))))
        /\ gge(glog(l.U),
               gadd(gmul(l.X, one_over_two),
                    gmul(l.d, gadd(gsub(one, l.V), glog(l.V)))))
  IN  gle(l.V, zero) /\ cond

\* _cond_fn(kXVU): both conditions are evaluated, then or-ed
_cond_fn(l) ==
  LET cond ==
        /\ gge(l.U, gsub(one, gmul(squeeze_const, gmul(l.X, l.X))))
        /\ gge(glog(l.U),
               gadd(gmul(l.X, one_over_two),
                    gmul(l.d, gadd(gsub(one, l.V), glog(l.V)))))
  IN  gle(l.V, zero) \/ cond

MaxIter == 2

\* key, x_key, U_key = split(key, 3): the keys the first n runs of the body
\* hand on, after the key the loop starts with
RECURSIVE loop_keys(_, _)
loop_keys(key, n) ==
  IF n = 0 THEN <<key>>
  ELSE CHOOSE r \in {<<k>> \o loop_keys(split(k, 3)[1], n - 1) :
                      k \in {key}} : TRUE

\* the state of _gamma_one before the loop: key, boost, alpha, d, c and the
\* loop state (key, X, V, U) = (key, 0, -1, 0); u0 is uniform(subkey, ()).
\* iter counts the runs of the body up to MaxIter, and keys holds the keys
\* of the loop state that far
gamma_locals(key, keys, alpha, u0) ==
  CHOOSE l \in
    {[fn |-> "gamma", stage |-> "loop", iter |-> 0,
      key |-> key, keys |-> keys,
      X |-> zero, V |-> minus_one, U |-> zero,
      boost |-> IF gge(alpha, one) THEN one ELSE gpow(u0, gdiv(one, alpha)),
      d |-> d,
      c |-> gdiv(one_over_three, gpow(d, one_over_two))] :
     d \in {gsub(IF gge(alpha, one) THEN alpha ELSE gadd(alpha, one),
                 one_over_three)}} : TRUE

\* key, subkey = split(key) and the state before the loop
gamma_setup(key, alpha, u0) ==
  CHOOSE l \in
    {gamma_locals(ks[1], loop_keys(ks[1], MaxIter), alpha, u0) :
     ks \in {split(key, 2)}} : TRUE

\* the key the body hands on
body_key(l) == l.keys[(IF l.iter < MaxIter THEN l.iter + 1 ELSE l.iter) + 1]

\* the body leaves V unchanged
_body_fn_stale(l, key, x, U) ==
  [l EXCEPT !.iter = IF l.iter < MaxIter THEN l.iter + 1 ELSE l.iter,
            !.key = key,
            !.X = gmul(x, x),
            !.U = U]

\* _body_fn(kXVU) with the key handed on and the draws x = normal(x_key, ())
\* and U = uniform(U_key, ())
_body_fn(l, key, x, U) ==
  CHOOSE n \in
    {[l EXCEPT !.iter = IF l.iter < MaxIter THEN l.iter + 1 ELSE l.iter,
               !.key = key,
               !.X = gmul(x, x),
               !.V = gmul(gmul(v, v), v),
               !.U = U] : v \in {gadd(one, gmul(x, l.c))}} : TRUE

\* z is returned although it is zero
gamma_result_raw(l) == gmul(gmul(l.d, l.V), l.boost)

\* z = d * V * boost; select(z == 0, tiny, z)
gamma_result(l) ==
  CHOOSE r \in {IF geq(z, zero) THEN tiny ELSE z :
                z \in {gmul(gmul(l.d, l.V), l.boost)}} : TRUE

---------------------------------------------------------------------------
(* gamma over an array: one lane for each element                          *)
(* The draws of a lane are computed from its keys: a uniform draw is the   *)
(* float of uniform cut to the grid, a normal draw is sqrt(2) * erf_inv of *)
(* the argument _normal computes, read from a table of eight steps.        *)

\* uniform(key, (), dtype) on the grid
grid_uniform(key, dtype) ==
  CHOOSE g \in
    {IF dtype = "float64"
       THEN u.value[1][1] * 2^(58 - nmant64) + u.value[1][2] \div Grid
     ELSE u.value[1] \div 2^(nmant32 - 10) :
     u \in {_uniform(key, <<>>, dtype, 0, 1)}} : TRUE

\* sqrt(2) * erf_inv(u) on the grid for |u| in the eighth of [0, 1) with the
\* index given, at the middle of the eighth
normal_table == <<80, 243, 412, 593, 795, 1034, 1350, 1908>>

\* the eighth of [0, 1) that |u| lies in, negative for u < 0; u is the
\* argument of erf_inv as _normal holds it
eighth_of(u, dtype) ==
  IF dtype = "float64"
    THEN IF u[1] >= 2^15 THEN -((neg64(u)[1] \div 4) + 1)
         ELSE (u[1] \div 4) + 1
  ELSE IF u < 0 THEN -(((-u) \div 2^21) + 1) ELSE (u \div 2^21) + 1

\* normal(key, (), dtype) on the grid
grid_normal(key, dtype) ==
  CHOOSE x \in
    {IF e < 0 THEN -normal_table[-e] ELSE normal_table[e] :
     e \in {eighth_of(IF dtype = "float64" THEN erf_inv_arg64(bits.value[1])
                      ELSE erf_inv_arg32(bits.value[1]), dtype) :
            bits \in {_random_bits(key, finfo_bits(dtype), <<>>)}}} : TRUE

\* every lane is given the first sub-key
lane_keys_shared(key, n) == [i \in 1 .. n |-> split(key, n)[1]]

\* keys = split(key, onp.size(alphas))
lane_keys(key, n) == split(key, n)

\* _gamma_one(key, alpha) up to its loop, with boost drawn from subkey; the
\* keys of the loop are split in the body
lane_setup(key, alpha, dtype) ==
  CHOOSE l \in
    {gamma_locals(ks[1], <<>>, alpha, grid_uniform(ks[2], dtype)) :
     ks \in {split(key, 2)}} : TRUE

\* one run of _body_fn with the draws of the keys split from the lane's key
lane_body(l, dtype) ==
  CHOOSE n \in
    {_body_fn(l, ks[1], grid_normal(ks[2], dtype), grid_uniform(ks[3], dtype)) :
     ks \in {split(l.key, 3)}} : TRUE

\* the body is run in every lane, also in those whose predicate is false
batched_body_all(lanes, dtype) ==
  [i \in 1 .. Len(lanes) |-> lane_body(lanes[i], dtype)]

\* one run of the body of the vectorized loop: a lane whose predicate is
\* false keeps its state
batched_body(lanes, dtype) ==
  [i \in 1 .. Len(lanes) |->
     IF _cond_fn(lanes[i]) THEN lane_body(lanes[i], dtype) ELSE lanes[i]]

\* the predicate of the vectorized loop: some lane's predicate is true
batched_cond(lanes) == \E i \in 1 .. Len(lanes) : _cond_fn(lanes[i])

\* samples = vmap(_gamma_one)(keys, alphas) up to the loop
lanes_setup(key, alphas, dtype) ==
  CHOOSE ls \in
    {[i \in 1 .. Len(alphas) |-> lane_setup(keys[i], alphas[i], dtype)] :
     keys \in {lane_keys(key, Len(alphas))}} : TRUE

---------------------------------------------------------------------------
(* The keys a sampler uses                                                 *)
(* A key is held as its derivation path from the caller's key: child i of  *)
(* split(key, num) is the path of key with i appended.  A sampler is the   *)
(* sequence of its uses of keys: a split, a call of the bit generator, or  *)
(* a call of another sampler.                                              *)

\* split(key, num)[i]
child(key, i) == Append(key, i)

\* split(key, num)
use_split(key, num) == <<[use |-> "split", key |-> key, num |-> num]>>

\* _random_bits(key, nbits, shape)
use_bits(key) == <<[use |-> "bits", key |-> key]>>

\* a sampler fn called with key
use_call(fn, key) == <<[use |-> "call", fn |-> fn, key |-> key]>>

\* _uniform: bits = _random_bits(key, nbits, shape)
uniform_use(key) == use_bits(key)

\* _normal: u = uniform(key, shape, dtype, lo, hi)
normal_use(key) == uniform_use(key)

\* _randint: k1, k2 = split(key); rbits(k1), rbits(k2)
randint_use(key) ==
  use_split(key, 2) \o use_bits(child(key, 0)) \o use_bits(child(key, 1))

\* _shuffle: in each round key, subkey = split(key) and the sort keys are
\* _random_bits(subkey, 32, x.shape)
RECURSIVE shuffle_use(_, _)
shuffle_use(key, rounds) ==
  IF rounds = 0 THEN <<>>
  ELSE use_split(key, 2) \o use_bits(child(key, 1))
       \o shuffle_use(child(key, 0), rounds - 1)

\* the uniform draw of the body is made from the key the loop carries on
RECURSIVE body_use_carried(_, _)
body_use_carried(key, runs) ==
  IF runs = 0 THEN <<>>
  ELSE use_split(key, 3) \o normal_use(child(key, 1))
       \o uniform_use(child(key, 0))
       \o body_use_carried(child(key, 0), runs - 1)

\* _body_fn, run after run: key, x_key, U_key = split(key, 3);
\* normal(x_key), uniform(U_key); the next run has the new key
RECURSIVE body_use(_, _)
body_use(key, runs) ==
  IF runs = 0 THEN <<>>
  ELSE use_split(key, 3) \o normal_use(child(key, 1))
       \o uniform_use(child(key, 2))
       \o body_use(child(key, 0), runs - 1)

\* _gamma_one: key, subkey = split(key); uniform(subkey) for boost; the loop
\* starts with the new key
_gamma_one_use(key, runs) ==
  use_split(key, 2) \o uniform_use(child(key, 1))
  \o body_use(child(key, 0), runs)

\* the lanes i, i + 1, ..., n - 1 of vmap(_gamma_one)(keys, alphas)
RECURSIVE lanes_use(_, _, _, _)
lanes_use(key, i, n, runs) ==
  IF i >= n THEN <<>>
  ELSE _gamma_one_use(child(key, i), runs) \o lanes_use(key, i + 1, n, runs)

\* _gamma: keys = split(key, onp.size(alphas)); every lane runs the body as
\* often as the slowest lane needs
gamma_use(key, n, runs) == use_split(key, n) \o lanes_use(key, 0, n, runs)

\* _beta: key_a, key_b = split(key); gamma(key_a, ...), gamma(key_b, ...)
beta_use(key, n, runs) ==
  use_split(key, 2)
  \o use_call("gamma", child(key, 0)) \o gamma_use(child(key, 0), n, runs)
  \o use_call("gamma", child(key, 1)) \o gamma_use(child(key, 1), n, runs)

\* _t: key_n, key_g = split(key); n = normal(key_n, ...);
\* g = gamma(key_n, ...)
t_use(key, n, runs) ==
  use_split(key, 2)
  \o use_call("normal", child(key, 0)) \o normal_use(child(key, 0))
  \o use_call("gamma", child(key, 0)) \o gamma_use(child(key, 0), n, runs)

\* the uses of a sampler called with key, n elements, a loop of runs runs or
\* a shuffle of runs rounds
sampler_use(fn, key, n, runs) ==
  IF fn = "randint" THEN randint_use(key)
  ELSE IF fn = "shuffle" THEN shuffle_use(key, runs)
  ELSE IF fn = "gamma" THEN gamma_use(key, n, runs)
  ELSE IF fn = "beta" THEN beta_use(key, n, runs)
  ELSE t_use(key, n, runs)

---------------------------------------------------------------------------
(* The calls: a caller issues a call (Call...), the operation runs to its  *)
(* result (Do...).  saved is a record of one earlier call and its result,  *)
(* kept by an observer.                                                    *)

Pending == [raised |-> "pending", held |-> FALSE, dtype |-> "", value |-> <<>>]

NKeys == 3
NSeeds == 8
NWords == 3
MaxCount == 4
MaxNum == 3
NShapes == 7
NRanges == 3
SKeys == 1
SSeeds == 3
SNum == 2
SShapes == 2
SRanges == 1
IKeys == 2
IShapes == 2
NIntRanges == 7
ShKeys == 5
NArrays == 9
GKeys == 1
NAlphas == 3
NXDraws == 5
NUDraws == 3
NRoots == 2
NRaw == 3
MaxLanes == 3
MaxRuns == 3

NLaneKeys == 1

SampleKeys ==
  << <<<<0, 0>>, <<0, 0>>>>,
     <<<<0, 0>>, <<0, 14492>>>>,
     <<<<0, 0>>, <<0, 42>>>>,
     <<<<65535, 65535>>, <<65535, 65535>>>>,
     <<<<0, 42>>, <<0, 43>>>>,
     <<<<65535, 65535>>, <<0, 0>>>> >>

\* 0, 1, 2^32 + 1, -1, 42, 9183610319962449053, 14492,
\* -3217843405859124848, -2^63, 2^63 - 1
SampleSeeds ==
  << [neg |-> FALSE, mag |-> <<0, 0, 0, 0>>],
     [neg |-> FALSE, mag |-> <<0, 0, 0, 1>>],
     [neg |-> FALSE, mag |-> <<0, 1, 0, 1>>],
     [neg |-> TRUE,  mag |-> <<0, 0, 0, 1>>],
     [neg |-> FALSE, mag |-> <<0, 0, 0, 42>>],
     [neg |-> FALSE, mag |-> <<32626, 48365, 56569, 9373>>],
     [neg |-> FALSE, mag |-> <<0, 0, 0, 14492>>],
     [neg |-> TRUE,  mag |-> <<11432, 4999, 23824, 63088>>],
     [neg |-> TRUE,  mag |-> <<32768, 0, 0, 0>>],
     [neg |-> FALSE, mag |-> <<32767, 65535, 65535, 65535>>] >>

\* 0, 0x80000000, 0xFFFFFFFF, 1, 0x7FFFFFFF, 2
SampleWords ==
  << <<0, 0>>, <<32768, 0>>, <<65535, 65535>>, <<0, 1>>, <<32767, 65535>>,
     <<0, 2>> >>

\* shapes with 2, 1, 3, 4 elements, then 2^32 - 1, 2^32 - 2, 2^32, 2^31 and
\* 2^31 - 1 elements
SampleShapes ==
  << <<2>>, <<>>, <<3>>, <<2, 2>>, <<65535, 65537>>, <<2, 2147483647>>,
     <<65536, 65536>>, <<32768, 65536>>, <<2147483647>>, <<1, 5>> >>

\* <<minval, maxval>>
SampleRanges ==
  << <<0, 1>>, <<128, 129>>, <<3, 10>>, <<64, 65>>, <<0, 200>> >>

\* <<minval, maxval>> as Python ints: (0, 65537), (-2^31, 2^31 - 1),
\* (2^31 - 1, 0), (5, 5), (-7, 3), (0, 2^32 + 1), (-2^63, 2^63 - 1), (3, 10),
\* (10, 3)
SampleIntRanges ==
  << <<[neg |-> FALSE, mag |-> <<0, 0, 0, 0>>],
       [neg |-> FALSE, mag |-> <<0, 0, 1, 1>>]>>,
     <<[neg |-> TRUE,  mag |-> <<0, 0, 32768, 0>>],
       [neg |-> FALSE, mag |-> <<0, 0, 32767, 65535>>]>>,
     <<[neg |-> FALSE, mag |-> <<0, 0, 32767, 65535>>],
       [neg |-> FALSE, mag |-> <<0, 0, 0, 0>>]>>,
     <<[neg |-> FALSE, mag |-> <<0, 0, 0, 5>>],
       [neg |-> FALSE, mag |-> <<0, 0, 0, 5>>]>>,
     <<[neg |-> TRUE,  mag |-> <<0, 0, 0, 7>>],
       [neg |-> FALSE, mag |-> <<0, 0, 0, 3>>]>>,
     <<[neg |-> FALSE, mag |-> <<0, 0, 0, 0>>],
       [neg |-> FALSE, mag |-> <<0, 1, 0, 1>>]>>,
     <<[neg |-> TRUE,  mag |-> <<32768, 0, 0, 0>>],
       [neg |-> FALSE, mag |-> <<32767, 65535, 65535, 65535>>]>>,
     <<[neg |-> FALSE, mag |-> <<0, 0, 0, 3>>],
       [neg |-> FALSE, mag |-> <<0, 0, 0, 10>>]>>,
     <<[neg |-> FALSE, mag |-> <<0, 0, 0, 10>>],
       [neg |-> FALSE, mag |-> <<0, 0, 0, 3>>]>> >>

\* arrays of 3, 2 x 2, 1, 1626, 4 (two elements equal), 1625, 41 x 40,
\* 2642245, 3 x 2, 0 and 65535 x 65537 elements
SampleArrays ==
  << [shape |-> <<3>>, held |-> TRUE, elems |-> <<10, 20, 30>>],
     [shape |-> <<2, 2>>, held |-> TRUE, elems |-> <<1, 2, 3, 4>>],
     [shape |-> <<1>>, held |-> TRUE, elems |-> <<7>>],
     [shape |-> <<1626>>, held |-> FALSE, elems |-> <<>>],
     [shape |-> <<4>>, held |-> TRUE, elems |-> <<5, 5, 6, 7>>],
     [shape |-> <<1625>>, held |-> FALSE, elems |-> <<>>],
     [shape |-> <<41, 40>>, held |-> FALSE, elems |-> <<>>],
     [shape |-> <<2642245>>, held |-> FALSE, elems |-> <<>>],
     [shape |-> <<3, 2>>, held |-> TRUE, elems |-> <<1, 2, 3, 4, 5, 6>>],
     [shape |-> <<0>>, held |-> FALSE, elems |-> <<>>],
     [shape |-> <<65535, 65537>>, held |-> FALSE, elems |-> <<>>] >>

\* keys for gamma over arrays: PRNGKey(21), PRNGKey(6), PRNGKey(12)
SampleLaneKeys ==
  << <<<<0, 0>>, <<0, 21>>>>,
     <<<<0, 0>>, <<0, 6>>>>,
     <<<<0, 0>>, <<0, 12>>>> >>

\* shape parameters 1, 1/2, 3, 1/4, 2 and 1 + 2^-10
SampleAlphas ==
  <<Grid, Grid \div 2, 3 * Grid, Grid \div 4, 2 * Grid, Grid + 1>>

\* normal draws 0, 2, -3, 1/2, -1, 5, -5, 1
SampleXDraws ==
  <<0, 2 * Grid, -3 * Grid, Grid \div 2, -Grid, 5 * Grid, -5 * Grid, Grid>>

\* uniform draws 1 - 2^-10, 0, 1/2, 2^-10, 1/4, 7/8
SampleUDraws ==
  <<Grid - 1, 0, Grid \div 2, 1, Grid \div 4, 7 * (Grid \div 8)>>

Take(samples, n) ==
  {samples[i] : i \in 1 .. (IF n < Len(samples) THEN n ELSE Len(samples))}

Keys == Take(SampleKeys, NKeys)
Seeds == Take(SampleSeeds, NSeeds)
Words == Take(SampleWords, NWords)
Shapes == Take(SampleShapes, NShapes)
Ranges == Take(SampleRanges, NRanges)
DTypes == {"float32", "float16", "int32", "float64"}
BitWidths == {32, 64}

RECURSIVE SeqsUpTo(_, _)
SeqsUpTo(S, n) ==
  IF n = 0 THEN {<<>>}
  ELSE LET shorter == SeqsUpTo(S, n - 1)
       IN  shorter \cup {Append(q, x) : q \in shorter, x \in S}

Counts == SeqsUpTo(Words, MaxCount) \ {<<>>}

Idle == op = "none"

Issue(o, a) == /\ Idle
               /\ op' = o
               /\ args' = a
               /\ res' = Pending
               /\ locals' = NoLocals
               /\ UNCHANGED <<saved, x64>>

Running(o) == res.raised = "pending" /\ op = o

Returned == op # "none" /\ res.raised # "pending"

ReturnWith(r, l) == /\ res' = r
                    /\ locals' = l
                    /\ UNCHANGED <<op, args, saved, x64>>

Return(r) == ReturnWith(r, NoLocals)

\* the caller takes the result; the next call can be issued
Done == /\ Returned
        /\ op' = "none"
        /\ args' = <<>>
        /\ res' = Ok(<<>>)
        /\ locals' = NoLocals
        /\ UNCHANGED <<saved, x64>>

\* jax_enable_x64 is off unless the program turns it on
Init == /\ op = "none"
        /\ args = <<>>
        /\ res = Ok(<<>>)
        /\ saved = <<>>
        /\ x64 = FALSE
        /\ locals = NoLocals

\* with enable_x64(): / with disable_x64(): around later calls
SetX64 == /\ Idle
          /\ x64' = ~x64
          /\ UNCHANGED <<op, args, res, saved, locals>>

\* an observer keeps the call that has just returned
Remember == /\ Returned
            /\ saved' = <<[op |-> op, args |-> args, x64 |-> x64, res |-> res]>>
            /\ UNCHANGED <<op, args, res, x64, locals>>

CallThreefry == \E k \in Keys, c \in Counts : Issue("threefry_2x32", <<k, c>>)

DoThreefry == /\ Running("threefry_2x32")
              /\ Return(Ok(threefry_2x32(args[1], args[2])))

CallPRNGKey == \E s \in Seeds : Issue("PRNGKey", <<s>>)

DoPRNGKey == /\ Running("PRNGKey")
             /\ Return(Ok(PRNGKey(args[1])))

CallSplit == \E k \in Keys, num \in 1 .. MaxNum : Issue("split", <<k, num>>)

DoSplit == /\ Running("split")
           /\ Return(Ok(split(args[1], args[2])))

CallFoldIn == \E k \in Keys, d \in Seeds : Issue("fold_in", <<k, d>>)

DoFoldIn == /\ Running("fold_in")
            /\ Return(Ok(fold_in(args[1], args[2])))

CallRandomBits ==
  \E k \in Keys, w \in BitWidths, sh \in Shapes :
    Issue("_random_bits", <<k, w, sh>>)

DoRandomBits == /\ Running("_random_bits")
                /\ Return(_random_bits(args[1], args[2], args[3]))

CallUniform ==
  \E k \in Keys, sh \in Shapes, dt \in DTypes, r \in Ranges :
    Issue("uniform", <<k, sh, dt, r[1], r[2]>>)

DoUniform == /\ Running("uniform")
             /\ Return(uniform(args[1], args[2], args[3], args[4], args[5]))

\* a Python int the dtype can hold: minval and maxval are given in the
\* range of the dtype the call works in
representable(dtype, v) ==
  dtype = "int32" =>
    LET x == as_int64(v)
    IN  \/ x[1] = 0 /\ x[2] = 0 /\ x[3] < 2^15
        \/ x[1] = Limb - 1 /\ x[2] = Limb - 1 /\ x[3] >= 2^15

IntKeys == Take(SampleKeys, IKeys)
IntShapes == Take(SampleShapes, IShapes)
IntRanges == Take(SampleIntRanges, NIntRanges)
IntDTypes == {"int32", "int64", "int16", "float32"}

CallRandint ==
  \E k \in IntKeys, sh \in IntShapes, r \in IntRanges, dt \in IntDTypes :
    /\ representable(canonicalize_dtype(dt), r[1])
    /\ representable(canonicalize_dtype(dt), r[2])
    /\ Issue("randint", <<k, sh, r[1], r[2], dt>>)

DoRandint ==
  /\ Running("randint")
  /\ \E r \in {randint(args[1], args[2], args[3], args[4], args[5])} :
       ReturnWith(r, IF r.raised = ""
                       THEN _randint_locals(args[3], args[4],
                                            canonicalize_dtype(args[5]))
                       ELSE NoLocals)

ShuffleKeys == Take(SampleKeys, ShKeys)
Arrays == Take(SampleArrays, NArrays)

CallShuffle ==
  \E k \in ShuffleKeys, x \in Arrays :
    \E axis \in 0 .. Len(x.shape) - 1 : Issue("shuffle", <<k, x, axis>>)

DoShuffle ==
  /\ Running("shuffle")
  /\ \E out \in shuffle(args[1], args[2], args[3]) :
       ReturnWith(out.res, out.locals)

GammaKeys == Take(SampleKeys, GKeys)
Alphas == Take(SampleAlphas, NAlphas)
XDraws == Take(SampleXDraws, NXDraws)
UDraws == Take(SampleUDraws, NUDraws)

\* gamma(key, a, (), dtype) for a scalar a > 0
CallGamma ==
  \E k \in GammaKeys, a \in Alphas, dt \in {"float32", "float64"} :
    Issue("gamma", <<k, a, <<>>, dt>>)

\* _gamma: keys = split(key, 1); _gamma_one up to its loop
GammaEnter ==
  /\ Running("gamma")
  /\ locals = NoLocals
  /\ \E key \in {split(args[1], 1)[1]} :
       \E u0 \in UDraws : locals' = gamma_setup(key, args[2], u0)
  /\ UNCHANGED <<op, args, res, saved, x64>>

InLoop == Running("gamma") /\ locals.fn = "gamma"

\* one run of the body of lax.while_loop
GammaBody ==
  /\ InLoop
  /\ _cond_fn(locals)
  /\ \E key \in {body_key(locals)} :
       \E x \in XDraws, U \in UDraws : locals' = _body_fn(locals, key, x, U)
  /\ UNCHANGED <<op, args, res, saved, x64>>

\* a run of the body whose draw passes the test
GammaAccept == GammaBody /\ ~_cond_fn(locals')

\* the loop ends and _gamma_one returns
GammaExit ==
  /\ InLoop
  /\ ~_cond_fn(locals)
  /\ ReturnWith(OkAs(canonicalize_dtype(args[4]), <<gamma_result(locals)>>),
                [locals EXCEPT !.stage = "done"])

LaneKeys == Take(SampleLaneKeys, NLaneKeys)

\* the arrays a of one to MaxLanes shape parameters, each 1 or 3
AlphaArrays == UNION {[1 .. n -> {one, 3 * one}] : n \in 1 .. MaxLanes}

\* gamma(key, a, shape, dtype) for an array a
CallGammaLanes ==
  \E k \in LaneKeys, a \in AlphaArrays :
    Issue("gamma", <<k, a, <<Len(a)>>, "float64">>)

\* _gamma: keys = split(key, size) and every lane of _gamma_one up to the loop
LanesEnter ==
  /\ Running("gamma")
  /\ locals = NoLocals
  /\ locals' = [fn |-> "gamma", stage |-> "lanes", runs |-> 0,
                lanes |-> lanes_setup(args[1], args[2],
                                      canonicalize_dtype(args[4]))]
  /\ UNCHANGED <<op, args, res, saved, x64>>

InLanes == Running("gamma") /\ locals.fn = "gamma" /\ locals.stage = "lanes"

\* one run of the body of the vectorized loop
LanesBody ==
  /\ InLanes
  /\ batched_cond(locals.lanes)
  /\ locals' = [locals EXCEPT
                  !.runs = IF @ < MaxRuns THEN @ + 1 ELSE @,
                  !.lanes = batched_body(@, canonicalize_dtype(args[4]))]
  /\ UNCHANGED <<op, args, res, saved, x64>>

\* the vectorized loop ends and the samples are returned
LanesExit ==
  /\ InLanes
  /\ ~batched_cond(locals.lanes)
  /\ ReturnWith(OkAs(canonicalize_dtype(args[4]),
                     [i \in 1 .. Len(locals.lanes) |->
                        gamma_result(locals.lanes[i])]),
                [locals EXCEPT !.stage = "done"])

\* the caller's key as a path: the caller's own key, or a key the caller
\* derived
SampleRoots == << <<>>, <<1>>, <<0, 2>>, <<0>> >>

Roots == Take(SampleRoots, NRoots)

\* a sampler called with a key held as a path; randint has no loop, and
\* shuffle has rounds, not lanes
CallSampler ==
  \E fn \in {"randint", "shuffle", "gamma", "beta", "t"}, k \in Roots,
     n \in 1 .. MaxLanes, runs \in 0 .. MaxRuns :
    /\ fn = "randint" => n = 1 /\ runs = 0
    /\ fn = "shuffle" => n = 1
    /\ fn \in {"gamma", "beta", "t"} => runs >= 1
    /\ Issue(fn, <<k, n, runs>>)

\* the sampler runs; the model holds the keys it used, not its elements
DoSampler ==
  /\ \E fn \in {"randint", "shuffle", "gamma", "beta", "t"} : Running(fn)
  /\ ReturnWith(Large("float32"),
                [fn |-> "keys", uses |-> sampler_use(op, args[1], args[2], args[3])])

\* the raw random words of one element
RawWords == Take(SampleWords, NRaw)

\* normal(key, (), dtype) or exponential(key, (), dtype) for a key whose
\* raw random words are <<w1, w2>>
CallTranscendental ==
  \E fn \in {"normal", "exponential"}, w1 \in RawWords, w2 \in RawWords,
     dt \in {"float32", "float64"} :
    Issue(fn, <<<<w1, w2>>, <<>>, dt>>)

\* the sampler runs; the model holds the argument of erf_inv or log
DoTranscendental ==
  /\ Running("normal") \/ Running("exponential")
  /\ \E dt \in {canonicalize_dtype(args[3])} :
       ReturnWith(Large(dt),
                  [fn |-> op, dtype |-> dt,
                   arg |-> transcendental_arg(op, args[1], dt)])

\* threefry_2x32 called with key words and a counter of any dtype
CallThreefryTyped ==
  \E k \in Keys, w \in Words, d1, d2, d3 \in {"uint32", "int32", "uint64"} :
    Issue("threefry_2x32", <<k, <<w>>, <<d1, d2, d3>>>>)

DoThreefryTyped ==
  /\ Running("threefry_2x32")
  /\ Return(threefry_2x32_typed(args[3], args[1], args[2]))

\* bernoulli with p = 0, 1/4, ..., 1 in an array of a float or an integer
\* dtype
CallBernoulli ==
  \E k \in Keys, q \in 0 .. 4, sh \in Shapes,
     dt \in {"float32", "float64", "float16", "int32", "bool"} :
    /\ dt \in {"int32", "bool"} => q \in {0, 4}
    /\ Issue("bernoulli", <<k, q, dt, sh>>)

DoBernoulli ==
  /\ Running("bernoulli")
  /\ Return(bernoulli(args[1], args[2], args[3], args[4]))

\* the hash alone
NextHash == CallThreefry \/ DoThreefry \/ Done

SpecHash == Init /\ [][NextHash]_vars

\* keys, bits and uniform samples
Next == \/ CallPRNGKey \/ DoPRNGKey
        \/ CallSplit \/ DoSplit
        \/ CallFoldIn \/ DoFoldIn
        \/ CallRandomBits \/ DoRandomBits
        \/ CallUniform \/ DoUniform
        \/ SetX64
        \/ Done

Spec == Init /\ [][Next]_vars

\* bounded integers
NextInt == CallRandint \/ DoRandint \/ SetX64 \/ Done

SpecInt == Init /\ [][NextInt]_vars

\* the keys the samplers use
NextKeys == CallSampler \/ DoSampler \/ Done

SpecKeys == Init /\ [][NextKeys]_vars

\* normal and exponential samples
NextArgs == CallTranscendental \/ DoTranscendental \/ SetX64 \/ Done

SpecArgs == Init /\ [][NextArgs]_vars

\* calls with arguments of any dtype
NextTypes == \/ CallThreefryTyped \/ DoThreefryTyped
             \/ CallUniform \/ DoUniform
             \/ CallRandint \/ DoRandint
             \/ CallBernoulli \/ DoBernoulli
             \/ SetX64
             \/ Done

SpecTypes == Init /\ [][NextTypes]_vars

\* gamma over arrays
NextLanes == \/ CallGammaLanes
             \/ LanesEnter
             \/ LanesBody
             \/ LanesExit
             \/ SetX64
             \/ Done

SpecLanes == Init /\ [][NextLanes]_vars

\* shuffles
NextShuffle == CallShuffle \/ DoShuffle \/ Done

SpecShuffle == Init /\ [][NextShuffle]_vars

\* gamma samples; the loop keeps running, and a draw that passes the test
\* comes up sooner or later
NextGamma == CallGamma \/ GammaEnter \/ GammaBody \/ GammaExit \/ SetX64 \/ Done

SpecGamma == /\ Init
             /\ [][NextGamma]_vars
             /\ WF_vars(GammaEnter)
             /\ WF_vars(GammaExit)
             /\ SF_vars(GammaAccept)

\* a session of calls watched by an observer who keeps one earlier call
SessionKeys == Take(SampleKeys, SKeys)
SessionSeeds == Take(SampleSeeds, SSeeds)
SessionShapes == Take(SampleShapes, SShapes)
SessionRanges == Take(SampleRanges, SRanges)
SessionDTypes == {"float32", "float64"}

SessionPRNGKey == \E s \in SessionSeeds : Issue("PRNGKey", <<s>>)

SessionSplit ==
  \E k \in SessionKeys, num \in 1 .. SNum : Issue("split", <<k, num>>)

SessionFoldIn ==
  \E k \in SessionKeys, d \in SessionSeeds : Issue("fold_in", <<k, d>>)

SessionRandomBits ==
  \E k \in SessionKeys, w \in BitWidths, sh \in SessionShapes :
    Issue("_random_bits", <<k, w, sh>>)

SessionUniform ==
  \E k \in SessionKeys, sh \in SessionShapes, dt \in SessionDTypes,
     r \in SessionRanges :
    Issue("uniform", <<k, sh, dt, r[1], r[2]>>)

NextSession == \/ SessionPRNGKey \/ DoPRNGKey
               \/ SessionSplit \/ DoSplit
               \/ SessionFoldIn \/ DoFoldIn
               \/ SessionRandomBits \/ DoRandomBits
               \/ SessionUniform \/ DoUniform
               \/ SetX64
               \/ Remember
               \/ Done

SpecSession == Init /\ [][NextSession]_vars

---------------------------------------------------------------------------
(* The hash stated round by round on the 32 bits of each word, and the     *)
(* inverse of the block map                                                *)

\* bit i of a word, bit 0 the least significant
WordBit(x, i) ==
  IF i < 16 THEN (x[2] \div 2^i) % 2 ELSE (x[1] \div 2^(i - 16)) % 2

\* the number with the n bits b[lo], b[lo + 1], ..., least significant first
RECURSIVE BitsValue(_, _, _)
BitsValue(b, lo, n) ==
  IF n = 0 THEN 0 ELSE b[lo] + 2 * BitsValue(b, lo + 1, n - 1)

WordOfBits(b) == <<BitsValue(b, 16, 16), BitsValue(b, 0, 16)>>

\* rotl(x, r): bit i of the result is bit i - r (mod 32) of x
Rotl(x, r) == WordOfBits([i \in 0 .. 31 |-> WordBit(x, (i + 32 - r) % 32)])

XorWords(x, y) ==
  WordOfBits([i \in 0 .. 31 |-> (WordBit(x, i) + WordBit(y, i)) % 2])

\* x + y modulo 2^32
AddWords(x, y) ==
  LET lo == x[2] + y[2]
      hi == x[1] + y[1] + (lo \div Limb)
  IN  <<hi % Limb, lo % Limb>>

\* the rotation of each of the 20 rounds
RoundRotation ==
  <<13, 15, 26, 6, 17, 29, 16, 24, 13, 15, 26, 6, 17, 29, 16, 24, 13, 15, 26, 6>>

\* ks0, ks1 and ks2 = k0 XOR k1 XOR 0x1BD11BDA
RoundKeys(key) ==
  <<key[1], key[2], XorWords(XorWords(key[1], key[2]), <<7121, 7130>>)>>

\* one round: x0 = x0 + x1, x1 = rotl(x1, rot) XOR x0
MixedPair(w, rot) ==
  CHOOSE q \in {<<x0, XorWords(rt, x0)>> :
                x0 \in {AddWords(w[1], w[2])}, rt \in {Rotl(w[2], rot)}} : TRUE

\* round r; after round 4 g the keys ks[g mod 3] and ks[(g + 1) mod 3] + g
\* are injected
RoundStep(ks, w, r) ==
  LET m == MixedPair(w, RoundRotation[r])
      g == r \div 4
  IN  IF r % 4 # 0 THEN m
      ELSE <<AddWords(m[1], ks[(g % 3) + 1]),
             AddWords(m[2], AddWords(ks[((g + 1) % 3) + 1], U32(g)))>>

\* the pair after r rounds
RECURSIVE AfterRounds(_, _, _)
AfterRounds(ks, x, r) ==
  IF r = 0 THEN <<AddWords(x[1], ks[1]), AddWords(x[2], ks[2])>>
  ELSE CHOOSE q \in {RoundStep(ks, w, r) :
                     w \in {AfterRounds(ks, x, r - 1)}} : TRUE

BlockByRounds(key, x) ==
  CHOOSE q \in {AfterRounds(ks, x, 20) : ks \in {RoundKeys(key)}} : TRUE

rotate_right(x, d) == or32(shift_right_logical(x, d), shift_left(x, 32 - d))

\* x - y modulo 2^32
sub32(x, y) == add32(x, add32(xor32(y, <<Limb - 1, Limb - 1>>), <<0, 1>>))

unround(v, rot) ==
  CHOOSE r \in {LET v1 == rotate_right(xor32(w[2], w[1]), rot)
                IN  <<sub32(w[1], v1), v1>> : w \in {v}} : TRUE

uninject(x, ka, kb, n) ==
  CHOOSE r \in {<<sub32(w[1], ka), sub32(sub32(w[2], U32(n)), kb)>> :
                w \in {x}} : TRUE

unrounds_lo(x) ==
  unround(unround(unround(unround(x, rotations[4]), rotations[3]),
                  rotations[2]), rotations[1])

unrounds_hi(x) ==
  unround(unround(unround(unround(x, rotations[8]), rotations[7]),
                  rotations[6]), rotations[5])

\* the counter pair that the key hashes to the pair y
block_inverse(key, y) ==
  LET ks == key_schedule(key[1], key[2])
      b5 == unrounds_lo(uninject(y, ks[3], ks[1], 5))
      b4 == unrounds_hi(uninject(b5, ks[2], ks[3], 4))
      b3 == unrounds_lo(uninject(b4, ks[1], ks[2], 3))
      b2 == unrounds_hi(uninject(b3, ks[3], ks[1], 2))
      b1 == unrounds_lo(uninject(b2, ks[2], ks[3], 1))
  IN  <<sub32(b1[1], ks[1]), sub32(b1[2], ks[2])>>

\* a returned call of threefry_2x32 on an even number of counters
HashedEven == /\ op = "threefry_2x32"
              /\ Returned
              /\ Len(args[2]) % 2 = 0

\* the i-th counter pair of the call and its output pair
LaneIn(i) == <<args[2][i], args[2][i + (Len(args[2]) \div 2)]>>

LaneOut(i) == <<res.value[i], res.value[i + (Len(args[2]) \div 2)]>>

\* C1: for every key and every even-length counter array, threefry_2x32
\* maps each pair (count[i], count[i + n/2]) to the pair obtained by adding
\* ks0, ks1, then five groups of four rounds x0 = x0 + x1, x1 = rotl(x1, r)
\* XOR x0 with rotations 13,15,26,6 / 17,29,16,24 alternating, each group
\* followed by the key injection (ks1, ks2+1), (ks2, ks0+2), (ks0, ks1+3),
\* (ks1, ks2+4), (ks2, ks0+5), all additions modulo 2^32.
C1_ThreefrySchedule ==
  HashedEven =>
    /\ Len(res.value) = Len(args[2])
    /\ \A i \in 1 .. (Len(args[2]) \div 2) :
         LaneOut(i) = BlockByRounds(args[1], LaneIn(i))

\* the all-zero key and counter pair hash to 0x6B200159, 0x99BA4EFE
C1_Witness ==
  /\ HashedEven
  /\ args[1] = <<<<0, 0>>, <<0, 0>>>>
  /\ args[2] = <<<<0, 0>>, <<0, 0>>>>
  /\ res.value = <<<<27424, 345>>, <<39354, 20222>>>>

\* C2: for every fixed key the block map from a counter pair to its output
\* pair is a bijection: different counter pairs never give the same output
\* pair, and every output pair is undone by the inverse rounds.
C2_BlockBijective ==
  HashedEven =>
    /\ \A i, j \in 1 .. (Len(args[2]) \div 2) :
         LaneIn(i) # LaneIn(j) => LaneOut(i) # LaneOut(j)
    /\ \A i \in 1 .. (Len(args[2]) \div 2) :
         block_inverse(args[1], LaneOut(i)) = LaneIn(i)

\* one call hashes the pairs (0, 0) and (0x80000000, 0x80000000)
C2_Witness ==
  /\ HashedEven
  /\ Len(args[2]) = 4
  /\ LaneIn(1) = <<<<0, 0>>, <<0, 0>>>>
  /\ LaneIn(2) = <<<<32768, 0>>, <<32768, 0>>>>
  /\ LaneOut(1) # LaneOut(2)

---------------------------------------------------------------------------
(* Repeated calls                                                          *)

SameResult(r1, r2) == /\ r1.raised = r2.raised
                      /\ r1.held = r2.held
                      /\ r1.dtype = r2.dtype
                      /\ r1.value = r2.value

\* the call that has just returned repeats the call the observer kept
Repeated == /\ Returned
            /\ saved # <<>>
            /\ saved[1].op = op
            /\ saved[1].args = args

---------------------------------------------------------------------------
(* Keys                                                                    *)

\* the four limbs of key[0] * 2^32 + key[1]
KeyValue(key) == <<key[1][1], key[1][2], key[2][1], key[2][2]>>

\* C4: for every seed s in the signed 64-bit range PRNGKey(s) is
\* [(s >> 32) AND 0xFFFFFFFF, s AND 0xFFFFFFFF], high word first: key[0] *
\* 2^32 + key[1] is congruent to s modulo 2^64 (it is s for s >= 0 and adds
\* with |s| to 0 modulo 2^64 for s < 0), and no other seed gives the same key.
C4_KeyIsSeedBits ==
  (op = "PRNGKey" /\ Returned) =>
    /\ Len(res.value) = 2
    /\ IF args[1].neg
         THEN add64(KeyValue(res.value), args[1].mag) = <<0, 0, 0, 0>>
         ELSE KeyValue(res.value) = args[1].mag
    /\ \A s \in Seeds : s # args[1] => PRNGKey(s) # res.value

\* the seed 2^32 + 1 gives the key [1, 1]; the seed 1, with the same low
\* word, is among the seeds compared
C4_Witness ==
  /\ op = "PRNGKey" /\ Returned
  /\ args[1] = [neg |-> FALSE, mag |-> <<0, 1, 0, 1>>]
  /\ res.value = <<<<0, 1>>, <<0, 1>>>>
  /\ [neg |-> FALSE, mag |-> <<0, 0, 0, 1>>] \in Seeds

C6_FoldInInjective ==
  (op = "fold_in" /\ Returned) =>
    \A d \in Seeds : d # args[2] => fold_in(args[1], d) # res.value

\* 2^32 + 1 is folded in, and 1, which has the same low word, gives another
\* key
C6_Witness ==
  /\ op = "fold_in" /\ Returned
  /\ args[2] = [neg |-> FALSE, mag |-> <<0, 1, 0, 1>>]
  /\ [neg |-> FALSE, mag |-> <<0, 0, 0, 1>>] \in Seeds
  /\ res.value # fold_in(args[1], [neg |-> FALSE, mag |-> <<0, 0, 0, 1>>])

\* C7 as stated: for every key k and every integer d, fold_in(k, d) is a
\* key different from k.
C7_FoldInNeverKey == (op = "fold_in" /\ Returned) => res.value # args[1]

\* C7 as amended: fold_in(k, d) = k for exactly one d of the signed 64-bit
\* range, the one whose key words PRNGKey(d) are the counter pair that the
\* block map under k sends to k; for every other d, fold_in(k, d) # k.
C7_FoldInFixedPoint ==
  (op = "fold_in" /\ Returned) =>
    (res.value = args[1] <=>
       PRNGKey(args[2]) = block_inverse(args[1], args[1]))

\* fold_in(PRNGKey(0), 9183610319962449053) returns PRNGKey(0)
C7_Witness ==
  /\ op = "fold_in" /\ Returned
  /\ args[1] = <<<<0, 0>>, <<0, 0>>>>
  /\ args[2] = [neg |-> FALSE, mag |-> <<32626, 48365, 56569, 9373>>]
  /\ res.value = args[1]

---------------------------------------------------------------------------
(* _random_bits                                                            *)

\* a returned call of _random_bits with a valid key and bit width
BitsReturned == /\ op = "_random_bits"
                /\ Returned
                /\ _is_prng_key(args[1])
                /\ args[2] \in {32, 64}

\* C8: _random_bits fails with an error exactly when max_count = (bit_width
\* / 32) * product(shape) exceeds 2^32 - 1; every request with max_count <=
\* 2^32 - 1 and a valid key and bit width is served.
C8_FailsOnlyAboveUint32Max ==
  BitsReturned =>
    LET max_count == max_count_of(args[2], args[3])
    IN  res.raised # "" <=>
          (ge64(max_count, <<0, 0, Limb - 1, Limb - 1>>)
             /\ max_count # <<0, 0, Limb - 1, Limb - 1>>)

\* the 32-bit hash output for the counters of a 64-bit request
HashWords == threefry_2x32(args[1], iota(2 * Len(res.value)))

\* a returned 64-bit request whose elements are held
Bits64Held == /\ BitsReturned
              /\ args[2] = 64
              /\ res.held

\* C9 as stated: for bit_width 64, element i of the flat output equals
\* (w[2i] << 32) OR w[2i+1], w the flat 32-bit hash output for counters
\* 0 .. 2n-1: consecutive output words are paired, the first the high half.
C9_ConsecutiveWordsPaired ==
  Bits64Held =>
    \A i \in 1 .. Len(res.value) :
      res.value[i] = <<HashWords[2 * i - 1][1], HashWords[2 * i - 1][2],
                       HashWords[2 * i][1], HashWords[2 * i][2]>>

\* C9 as amended: for bit_width 64, element i of the flat output of n
\* elements equals (w[i] << 32) OR w[n + i]: word i of the first half of the
\* hash output is the high half and word i of the second half the low half.
C9_HalvesPaired ==
  Bits64Held =>
    /\ res.dtype = "uint64"
    /\ \A i \in 1 .. Len(res.value) :
         res.value[i] =
           <<HashWords[i][1], HashWords[i][2],
             HashWords[Len(res.value) + i][1], HashWords[Len(res.value) + i][2]>>

\* _random_bits(PRNGKey(0), 64, (2,)): the hash words are 0xF71F4EA9,
\* 0x39A405D9, 0xA20E4081, 0x4BDFAE2F and element 0 is 0xF71F4EA9A20E4081
C9_Witness ==
  /\ Bits64Held
  /\ args[1] = <<<<0, 0>>, <<0, 0>>>>
  /\ args[3] = <<2>>
  /\ res.value[1] = <<63263, 20137, 41486, 16513>>

---------------------------------------------------------------------------
(* uniform                                                                 *)

\* C10: for every key, shape and minval < maxval, every element r of
\* uniform(key, shape, dtype, minval, maxval) satisfies minval <= r < maxval;
\* the result never equals maxval.
C10_HalfOpenRange ==
  (op = "uniform" /\ Returned /\ res.held /\ args[4] < args[5]) =>
    \A i \in 1 .. Len(res.value) :
      IF res.dtype = "float32"
        THEN /\ f32_of_int(args[4]) <= res.value[i]
             /\ res.value[i] < f32_of_int(args[5])
        ELSE /\ ge64(res.value[i], f64_of_int(args[4]))
             /\ ~ge64(res.value[i], f64_of_int(args[5]))

---------------------------------------------------------------------------
(* uniform: the bit pattern that is cast to float                          *)

\* a returned uniform call on [0, 1) whose elements are held: there the
\* result is bitcast(float_bits) - 1.0 exactly, so the mantissa field of
\* float_bits is the result times 2^nmant
UnitUniformHeld == /\ op = "uniform"
                   /\ Returned
                   /\ res.held
                   /\ args[4] = 0
                   /\ args[5] = 1

\* the raw random words of the call: _random_bits(key, nbits, shape)
RawBits ==
  IF res.dtype = "float32"
    THEN threefry_2x32(args[1], iota(Len(res.value)))
    ELSE pair64(threefry_2x32(args[1], iota(2 * Len(res.value))))

\* the mantissa field of the pattern cast to float for element i, as limbs
MantissaField(i) ==
  IF res.dtype = "float32"
    THEN <<res.value[i] \div Limb, res.value[i] % Limb>>
    ELSE res.value[i]

\* the low n bits and the high n bits of a raw word of four or two limbs
LowBits32(w) == <<w[1] % 2^(nmant32 - 16), w[2]>>

HighBits32(w) ==
  LET p == 2^(32 - nmant32)
      q == 2^(16 - (32 - nmant32))
  IN  <<w[1] \div p, ((w[1] % p) * q) + (w[2] \div p)>>

LowBits64(w) == <<w[1] % 2^(nmant64 - 48), w[2], w[3], w[4]>>

HighBits64(w) ==
  LET p == 2^(64 - nmant64)
      q == 2^(16 - (64 - nmant64))
  IN  <<w[1] \div p,
        ((w[1] % p) * q) + (w[2] \div p),
        ((w[2] % p) * q) + (w[3] \div p),
        ((w[3] % p) * q) + (w[4] \div p)>>

\* C11 as stated: the bit pattern cast to float is (raw_bits AND (2^nmant -
\* 1)) OR bits_of(1.0): the mantissa field holds the low nmant bits of each
\* raw random word (nmant = 23 for 32-bit, 52 for 64-bit floats).
C11_MantissaFromLowBits ==
  UnitUniformHeld =>
    \A i \in 1 .. Len(res.value) :
      MantissaField(i) = IF res.dtype = "float32" THEN LowBits32(RawBits[i])
                         ELSE LowBits64(RawBits[i])

\* C11 as amended: the bit pattern cast to float is (raw_bits >> (nbits -
\* nmant)) OR bits_of(1.0): the mantissa field holds the high nmant bits of
\* each raw random word, and the low nbits - nmant bits are dropped.
C11_MantissaFromHighBits ==
  UnitUniformHeld =>
    \A i \in 1 .. Len(res.value) :
      MantissaField(i) = IF res.dtype = "float32" THEN HighBits32(RawBits[i])
                         ELSE HighBits64(RawBits[i])

\* uniform(PRNGKey(0), (), float32): the raw word is 0x6B200159, its high 23
\* bits are 0x359000 = 3510272, its low 23 bits 0x200159
C11_Witness ==
  /\ UnitUniformHeld
  /\ res.dtype = "float32"
  /\ args[1] = <<<<0, 0>>, <<0, 0>>>>
  /\ args[2] = <<>>
  /\ res.value = <<3510272>>

---------------------------------------------------------------------------
(* randint                                                                 *)

\* a returned randint call whose elements are held
RandintHeld == op = "randint" /\ Returned /\ res.held

\* a value of the call's dtype as a four-limb pattern, and the signed order
IntArg(v) == wrap(locals.nbits, as_int64(v))

IntRes(i) == IF locals.nbits = 32 THEN to_uint64(res.value[i]) ELSE res.value[i]

Below(x, y) ==
  LET flip(v) == IF locals.nbits = 32
                   THEN <<0, 0, (v[3] + 2^15) % Limb, v[4]>>
                   ELSE <<(v[1] + 2^15) % Limb, v[2], v[3], v[4]>>
  IN  flip(x) # flip(y) /\ ge64(flip(y), flip(x))

\* C12: for every key, shape and every pair minval < maxval representable in
\* the 32- or 64-bit integer dtype (also when maxval - minval does not fit
\* the signed type), every element r of randint satisfies minval <= r <
\* maxval.
C12_RandintInRange ==
  (RandintHeld /\ Below(IntArg(args[3]), IntArg(args[4]))) =>
    \A i \in 1 .. Len(res.value) :
      /\ ~Below(IntRes(i), IntArg(args[3]))
      /\ Below(IntRes(i), IntArg(args[4]))

\* randint(PRNGKey(0), (2,), -2^31, 2^31 - 1, int32): maxval - minval is
\* 2^32 - 1 and does not fit int32
C12_Witness ==
  /\ RandintHeld
  /\ res.dtype = "int32"
  /\ Len(res.value) = 2
  /\ args[3] = [neg |-> TRUE, mag |-> <<0, 0, 32768, 0>>]
  /\ args[4] = [neg |-> FALSE, mag |-> <<0, 0, 32767, 65535>>]
  /\ locals.span = <<0, 0, Limb - 1, Limb - 1>>

\* C13: for every minval representable in the dtype and every maxval <=
\* minval, randint raises no error and every element of its result equals
\* minval: the range is treated as the unit range [minval, minval + 1).
C13_EmptyRangeGivesMinval ==
  (RandintHeld /\ ~Below(IntArg(args[3]), IntArg(args[4]))) =>
    /\ res.raised = ""
    /\ \A i \in 1 .. Len(res.value) : IntRes(i) = IntArg(args[3])

\* p doubled n times modulo span, for p < span
RECURSIVE DoubledMod(_, _, _)
DoubledMod(p, n, span) ==
  IF n = 0 THEN p
  ELSE CHOOSE r \in {DoubledMod(q, n - 1, span) :
                      q \in {rem_step(p, 0, span)}} : TRUE

\* 2^n mod span for n = 32 or 64, sixteen doublings at a time
Pow2Mod(n, span) ==
  LET p16 == DoubledMod(rem64(int64_of(1), span), 16, span)
      p32 == CHOOSE r \in {DoubledMod(p, 16, span) : p \in {p16}} : TRUE
      p48 == CHOOSE r \in {DoubledMod(p, 16, span) : p \in {p32}} : TRUE
  IN  IF n = 32 THEN p32
      ELSE CHOOSE r \in {DoubledMod(p, 16, span) : p \in {p48}} : TRUE

\* C14: for every span in 1 .. 2^nbits - 1, the multiplier randint computes
\* in the unsigned type of width nbits equals 2^nbits mod span (2^32 mod span
\* for 32-bit, 2^64 mod span for 64-bit dtypes).
C14_MultiplierIsPow2ModSpan ==
  RandintHeld => locals.multiplier = Pow2Mod(locals.nbits, locals.span)

\* the raw words of a returned randint call: _random_bits(k1, nbits, shape)
\* and _random_bits(k2, nbits, shape) for k1, k2 = split(key)
HigherBits == _random_bits(split(args[1], 2)[1], locals.nbits, args[2]).value

LowerBits == _random_bits(split(args[1], 2)[2], locals.nbits, args[2]).value

\* (higher * 2^nbits + lower) mod span in unbounded arithmetic, by long
\* division over the 2 nbits bits of the dividend
WideRem(nbits, higher, lower, span) ==
  IF nbits = 32
    THEN rem64(<<higher[3], higher[4], lower[3], lower[4]>>, span)
  ELSE CHOOSE r \in
    {rem_bits(lower[4], span, 15, r3) :
     r3 \in {rem_bits(lower[3], span, 15, r2) :
             r2 \in {rem_bits(lower[2], span, 15, r1) :
                     r1 \in {rem_bits(lower[1], span, 15, r0) :
                             r0 \in {rem64(higher, span)}}}}} : TRUE

\* the offset a returned element has from minval
Offset(i) == subn(locals.nbits, IntRes(i), locals.minval)

\* C26: for every span in 1 .. 2^nbits - 1 and every pair of raw words
\* (higher_bits, lower_bits), the offset randint adds to minval, computed in
\* the unsigned type of width nbits, equals (higher_bits * 2^nbits +
\* lower_bits) mod span in unbounded arithmetic: no product or sum wraps.
C26_OffsetIsWideRemainder ==
  (RandintHeld /\ locals.span # <<0, 0, 0, 0>>) =>
    \A i \in 1 .. Len(res.value) :
      Offset(i) = WideRem(locals.nbits, raw_word(locals.nbits, HigherBits[i]),
                          raw_word(locals.nbits, LowerBits[i]), locals.span)

---------------------------------------------------------------------------
(* shuffle                                                                 *)

\* a returned shuffle whose elements are held
ShuffleHeld == op = "shuffle" /\ Returned /\ res.held

\* how often v occurs among the positions of a line of an array
Occurs(a, line, v) == Cardinality({i \in 1 .. Len(line) : a[line[i]] = v})

ShuffleDone == op = "shuffle" /\ Returned /\ res.raised = ""

\* x.size, and whether its cube is below 2^64
SizeOf(x) == shape_prod(x.shape)

CubeFits(s) == ge64(<<0, 0, 40, 20805>>, s)

\* (2^32 - 1)^r for r <= 2 and s^3, as 64-bit values
PowUint32Max(r) ==
  IF r = 0 THEN int64_of(1)
  ELSE IF r = 1 THEN <<0, 0, Limb - 1, Limb - 1>>
  ELSE mul64(<<0, 0, Limb - 1, Limb - 1>>, <<0, 0, Limb - 1, Limb - 1>>)

Cube(s) == mul64(mul64(s, s), s)

\* r is the least integer >= 0 with (2^32 - 1)^r >= s^3
LeastRounds(r, s) ==
  /\ r \in 0 .. 2
  /\ ge64(PowUint32Max(r), Cube(s))
  /\ r > 0 => ~ge64(PowUint32Max(r - 1), Cube(s))

\* C16: for an array of size s >= 1 the number of sort rounds of shuffle is
\* ceil(3 ln(s) / ln(2^32 - 1)), the least r >= 0 with (2^32 - 1)^r >= s^3
\* (no round and the input returned when s = 1); each round uses a sub-key
\* freshly obtained by splitting the key carried from the previous round.
C16_RoundsAndFreshSubkeys ==
  (ShuffleDone /\ CubeFits(SizeOf(args[2]))) =>
    /\ LeastRounds(locals.num_rounds, SizeOf(args[2]))
    /\ Len(locals.keys) = locals.num_rounds
    /\ \A r \in 1 .. locals.num_rounds :
         /\ locals.keys[r] =
              split(IF r = 1 THEN args[1] ELSE locals.keys[r - 1][1], 2)
         /\ res.held =>
              locals.sort_keys[r]
                = _random_bits(locals.keys[r][2], 32, args[2].shape).value
    /\ (SizeOf(args[2]) = int64_of(1) /\ res.held) => res.value = args[2].elems

\* an array of 1626 elements: two rounds, the second with the sub-key split
\* from the key the first round left
C16_Witness ==
  /\ ShuffleDone
  /\ args[2].shape = <<1626>>
  /\ locals.num_rounds = 2
  /\ locals.keys[2] = split(locals.keys[1][1], 2)
  /\ locals.keys[2][2] # locals.keys[1][2]

\* C17 as stated: in each round the sort tags have the shape of the shuffled
\* axis only: exactly x.shape[axis] 32-bit tags are drawn per round, whatever
\* the other dimensions of x are.
C17_TagsShapedLikeAxis ==
  ShuffleHeld =>
    \A r \in 1 .. locals.num_rounds :
      Len(locals.sort_keys[r]) = args[2].shape[args[3] + 1]

\* the position in x of a value that occurs once
PositionOf(x, v) == CHOOSE k \in 1 .. Len(x) : x[k] = v

Distinct(x) == \A i, j \in 1 .. Len(x) : x[i] = x[j] => i = j

\* C17 as amended: in each round the sort tags have the shape of x: exactly
\* x.size 32-bit tags are drawn per round, one for each element, and each
\* line along axis is put in the order of its own tags.
C17_TagsShapedLikeArray ==
  ShuffleHeld =>
    /\ \A r \in 1 .. locals.num_rounds :
         Len(locals.sort_keys[r]) = Len(args[2].elems)
    /\ (locals.num_rounds = 1 /\ Distinct(args[2].elems)) =>
         LET lines == axis_lines(args[2].shape, args[3])
             tag(k) == locals.sort_keys[1][PositionOf(args[2].elems, res.value[k])]
         IN  \A l \in 1 .. Len(lines) :
               \A i \in 1 .. Len(lines[l]) - 1 :
                 tag_le(tag(lines[l][i]), tag(lines[l][i + 1]))

\* shuffle(PRNGKey(0), [[1, 2], [3, 4]], axis 0) = [[3, 2], [1, 4]]: four
\* tags, and the two columns are put in different orders
C17_Witness ==
  /\ ShuffleHeld
  /\ args[1] = <<<<0, 0>>, <<0, 0>>>>
  /\ args[2].shape = <<2, 2>>
  /\ args[3] = 0
  /\ Len(locals.sort_keys[1]) = 4
  /\ res.value = <<3, 2, 1, 4>>

---------------------------------------------------------------------------
(* gamma                                                                   *)

\* a gamma call that has returned, and one that is running
GammaReturned == op = "gamma" /\ Returned

GammaRunning == op = "gamma" /\ res.raised = "pending"

\* the loop result d * V * boost of the call
LoopResult == gmul(gmul(locals.d, locals.V), locals.boost)

\* C18: for every key and every shape parameter a > 0, each element returned
\* by gamma is strictly positive: the loop result d * V * boost is never
\* negative, and an exact zero is replaced by the smallest positive value of
\* the float type.
C18_GammaPositive ==
  GammaReturned =>
    /\ res.value[1] # NaN
    /\ res.value[1] > 0
    /\ LoopResult # NaN
    /\ LoopResult >= 0
    /\ res.value[1] = IF LoopResult = 0 THEN tiny ELSE LoopResult

\* a < 1 with a boost draw that gives boost = 0 (the draw 0, or one whose
\* power is below the grid): the loop result is zero and the smallest
\* positive value is returned
C18_Witness ==
  /\ GammaReturned
  /\ args[2] < one
  /\ locals.V > 0
  /\ locals.boost = 0
  /\ LoopResult = 0
  /\ res.value = <<tiny>>

\* C19: the rejection loop of gamma terminates: given that a draw (x, U)
\* that passes the acceptance test with V > 0 is eventually produced, every
\* gamma call reaches its result; the number of iterations has no fixed
\* bound.
C19_GammaTerminates == GammaRunning ~> GammaReturned

\* a call that is still rejecting after MaxIter runs of the body
C19_Witness ==
  /\ GammaRunning
  /\ locals.fn = "gamma"
  /\ locals.iter = MaxIter
  /\ locals.V > 0
  /\ _cond_fn(locals)

\* the rejection test as stated: U >= 1 - 0.0331 X^2 and log(U) >= X/2 +
\* d (1 - V + log(V))
Rejects(l) ==
  /\ gge(l.U, gsub(Grid, gmul(round_div(331 * Grid, 10000), gmul(l.X, l.X))))
  /\ gge(glog(l.U),
         gadd(gmul(l.X, Grid \div 2),
              gmul(l.d, gadd(gsub(Grid, l.V), glog(l.V)))))

Continues(l) == l.V <= 0 \/ Rejects(l)

\* a run of the body and the exit of the loop, as steps
BodyStep == /\ locals.fn = "gamma"
            /\ locals.stage = "loop"
            /\ locals'.fn = "gamma"
            /\ locals'.stage = "loop"
            /\ locals' # locals

ExitStep == /\ locals.fn = "gamma"
            /\ locals.stage = "loop"
            /\ locals'.fn = "gamma"
            /\ locals'.stage = "done"

\* C20: the gamma loop continues exactly while V <= 0 or (U >= 1 - 0.0331
\* X^2 and log(U) >= X/2 + d (1 - V + log(V))), with X = x^2 and V = (1 + c
\* x)^3; so in every state in which the loop has exited V > 0 and the
\* rejection test is false, and (initial V = -1) the body has run at least
\* once.
C20_LoopTest ==
  /\ [](GammaReturned =>
          /\ locals.V > 0
          /\ ~Rejects(locals)
          /\ locals.iter >= 1)
  /\ [][BodyStep =>
          /\ Continues(locals)
          /\ \E x \in XDraws :
               /\ locals'.X = gmul(x, x)
               /\ locals'.V = gmul(gmul(gadd(Grid, gmul(locals.c, x)),
                                        gadd(Grid, gmul(locals.c, x))),
                                   gadd(Grid, gmul(locals.c, x)))]_vars
  /\ [][ExitStep => ~Continues(locals)]_vars

\* a call that returned after rejecting a draw with V > 0: the body ran
\* twice or more
C20_Witness ==
  /\ GammaReturned
  /\ locals.iter >= 2
  /\ locals.V > 0
  /\ ~Rejects(locals)

---------------------------------------------------------------------------
(* threefry_2x32 on a counter of odd size                                  *)

\* the Threefry block of one counter pair under a key
Block(key, pair) == threefry_lane(key_schedule(key[1], key[2]), pair)

\* a returned hash of a counter with an odd number of words
OddCount == op = "threefry_2x32" /\ Returned /\ Len(args[2]) % 2 = 1

\* C23: for a counter array with an odd number n of elements threefry_2x32
\* returns n words, the first n words of the hash of the counter with one
\* zero word appended: word i < (n+1)/2 is paired with word i + (n+1)/2, the
\* last word of the first half with the zero pad, and the output word of
\* the pad is dropped.
C23_OddCounterPadded ==
  OddCount =>
    LET n      == Len(args[2])
        h      == (n + 1) \div 2
        padded == Append(args[2], <<0, 0>>)
    IN  /\ Len(res.value) = n
        /\ \A i \in 1 .. h :
             res.value[i] = Block(args[1], <<padded[i], padded[i + h]>>)[1]
        /\ \A i \in h + 1 .. n :
             res.value[i] = Block(args[1], <<padded[i - h], padded[i]>>)[2]
        /\ padded[2 * h] = <<0, 0>>

\* three counter words, the last of them not zero
C23_Witness ==
  /\ OddCount
  /\ Len(args[2]) = 3
  /\ args[2][3] # <<0, 0>>
  /\ args[2][1] # args[2][2]

---------------------------------------------------------------------------
(* uniform: the exponent of the pattern cast to float                      *)

\* a returned uniform call whose elements are held
UniformHeld == op = "uniform" /\ Returned /\ res.held

\* the raw random words as 64-bit values
RawWords64 ==
  IF res.dtype = "float32"
    THEN [i \in 1 .. Len(res.value) |-> to_uint64(RawBits[i])]
    ELSE RawBits

\* the pattern cast to float for a raw word, as a 64-bit value
FloatBits64(i) ==
  IF res.dtype = "float32"
    THEN to_uint64(float_bits_of(RawBits[i]))
    ELSE float_bits_of64(RawBits[i])

\* bits_of(1.0) and bits_of(2.0): 0x3F800000 and 0x40000000, or
\* 0x3FF0000000000000 and 0x4000000000000000
BitsOfOne == IF res.dtype = "float32" THEN <<0, 0, 16256, 0>>
             ELSE <<16368, 0, 0, 0>>

BitsOfTwo == IF res.dtype = "float32" THEN <<0, 0, 16384, 0>>
             ELSE <<16384, 0, 0, 0>>

\* C27: for every raw random word the bit pattern uniform casts to float
\* has sign bit 0 and the exponent field of 1.0: as an unsigned integer it
\* is in [bits_of(1.0), bits_of(2.0)), so the float before 1.0 is
\* subtracted is in [1, 2).
C27_PatternInOneTwo ==
  UniformHeld =>
    \A i \in 1 .. Len(res.value) :
      /\ ge64(FloatBits64(i), BitsOfOne)
      /\ ~ge64(FloatBits64(i), BitsOfTwo)
      /\ res.dtype = "float32" =>
           /\ bitcast_f32(float_bits_of(RawBits[i])) >= 2^nmant32
           /\ bitcast_f32(float_bits_of(RawBits[i])) < 2^(nmant32 + 1)

\* a raw word with its top bit set: 0xFFFF8354 for PRNGKey(14492)
C27_Witness ==
  /\ UniformHeld
  /\ res.dtype = "float32"
  /\ \E i \in 1 .. Len(res.value) : RawBits[i][1] >= 2^15

---------------------------------------------------------------------------
(* split, _random_bits and fold_in on the same key                         *)

\* C28: for every key and num >= 1, split(key, num) flattened to 2 num
\* words equals _random_bits(key, 32, (2 num,)): row j of the children is
\* words 2j and 2j + 1 of the sample.
C28_SplitIsRandomBits ==
  (op = "split" /\ Returned) =>
    \A bits \in {_random_bits(args[1], 32, <<2 * args[2]>>)} :
      /\ bits.raised = ""
      /\ bits.held =>
           /\ Len(bits.value) = 2 * Len(res.value)
           /\ \A j \in 1 .. Len(res.value) :
                res.value[j] = <<bits.value[2 * j - 1], bits.value[2 * j]>>

\* split(PRNGKey(0), 3): six words
C28_Witness ==
  /\ op = "split" /\ Returned
  /\ args = <<<<<<0, 0>>, <<0, 0>>>>, 3>>
  /\ Len(res.value) = 3
  /\ _random_bits(args[1], 32, <<6>>).held

\* C29: for every key k and integer d, fold_in(k, d) is the Threefry block
\* of k on the counter pair (high word of d, low word of d); so fold_in(k,
\* 1) is the only child of split(k, 1), whose counter pair is (0, 1).
C29_FoldInIsBlock ==
  (op = "fold_in" /\ Returned) =>
    \A d \in {as_int64(args[2])} :
      /\ res.value = Block(args[1], <<<<d[1], d[2]>>, <<d[3], d[4]>>>>)
      /\ d = <<0, 0, 0, 1>> =>
           /\ split(args[1], 1) = <<res.value>>
           /\ iota(2) = <<<<d[1], d[2]>>, <<d[3], d[4]>>>>

\* fold_in(PRNGKey(42), 1)
C29_Witness ==
  /\ op = "fold_in" /\ Returned
  /\ args[1] = <<<<0, 0>>, <<0, 42>>>>
  /\ args[2] = [neg |-> FALSE, mag |-> <<0, 0, 0, 1>>]
  /\ split(args[1], 1) = <<res.value>>

---------------------------------------------------------------------------
(* The keys a sampler uses                                                 *)

\* a returned sampler call with its uses of keys
KeysOf(fns) == op \in fns /\ Returned /\ locals.fn = "keys"

\* the uses of one kind, in order
UsesOf(kind) == SelectSeq(locals.uses, LAMBDA u : u.use = kind)

\* C24: with keys as derivation paths from the caller's key, within one
\* call of randint, beta, shuffle or gamma every invocation of the bit
\* generator receives a different derived key, and no key that is split
\* (the caller's key, the key carried through the shuffle rounds, the key
\* carried through the gamma loop) is itself passed to the bit generator.
C24_FreshKeys ==
  KeysOf({"randint", "beta", "shuffle", "gamma"}) =>
    /\ \A i, j \in 1 .. Len(UsesOf("bits")) :
         i # j => UsesOf("bits")[i].key # UsesOf("bits")[j].key
    /\ \A i \in 1 .. Len(UsesOf("split")), j \in 1 .. Len(UsesOf("bits")) :
         UsesOf("split")[i].key # UsesOf("bits")[j].key
    /\ \A j \in 1 .. Len(UsesOf("bits")) : UsesOf("bits")[j].key # args[1]

\* beta over two elements with two runs of the body: 2 * 2 * (1 + 2 * 2)
\* calls of the bit generator
C24_Witness ==
  /\ KeysOf({"beta"})
  /\ args[2] = 2
  /\ args[3] = 2
  /\ Len(UsesOf("bits")) = 20

\* C30: t(key, df, shape, dtype) draws its normal variate and its gamma
\* variate from the two different sub-keys of split(key): the normal from
\* key_n and the gamma from key_g, so no key is passed to two sampling
\* calls.
C30_TwoSubkeys ==
  KeysOf({"t"}) =>
    /\ Len(UsesOf("call")) = 2
    /\ UsesOf("call")[1] = [use |-> "call", fn |-> "normal", key |-> child(args[1], 0)]
    /\ UsesOf("call")[2] = [use |-> "call", fn |-> "gamma", key |-> child(args[1], 1)]
    /\ UsesOf("call")[1].key # UsesOf("call")[2].key

---------------------------------------------------------------------------
(* normal and exponential: the arguments of erf_inv and log                *)

\* a returned call of normal or exponential
ArgOf(fn) == op = fn /\ Returned /\ locals.fn = fn

\* x < y for float64 values of either sign held as two's complement
Less64(x, y) ==
  \E a \in {<<(x[1] + 2^15) % Limb, x[2], x[3], x[4]>>},
     b \in {<<(y[1] + 2^15) % Limb, y[2], y[3], y[4]>>} :
    a # b /\ ge64(b, a)

\* C25: the derived samplers never evaluate their transcendental function
\* at a singular point: in exponential the argument 1 - u of log is in
\* (0, 1] for every drawn u, and in normal the argument of erf_inv is
\* strictly greater than -1 and strictly less than 1 for every drawn value.
C25_ArgumentsInDomain ==
  /\ (ArgOf("exponential") /\ locals.dtype = "float32") =>
       locals.arg > 0 /\ locals.arg <= 2^nmant32
  /\ (ArgOf("exponential") /\ locals.dtype = "float64") =>
       /\ locals.arg # <<0, 0, 0, 0>>
       /\ ge64(<<2^(nmant64 - 48), 0, 0, 0>>, locals.arg)
  /\ (ArgOf("normal") /\ locals.dtype = "float32") =>
       locals.arg > -(2^24) /\ locals.arg < 2^24
  /\ (ArgOf("normal") /\ locals.dtype = "float64") =>
       /\ Less64(<<Limb - 32, 0, 0, 0>>, locals.arg)
       /\ Less64(locals.arg, <<32, 0, 0, 0>>)

\* the raw word 0 in float32: u = 0, the argument of log is 1 and that of
\* erf_inv is nextafter(-1, 0)
C25_Witness ==
  /\ ArgOf("exponential") \/ ArgOf("normal")
  /\ locals.dtype = "float32"
  /\ args[1][1] = <<0, 0>>
  /\ locals.arg = IF op = "normal" THEN lo32 ELSE 2^nmant32

---------------------------------------------------------------------------
(* Wrongly typed arguments                                                 *)

\* the dtype a sampler works in: a 64-bit dtype only with jax_enable_x64
Canonical(dt) ==
  IF x64 THEN dt
  ELSE IF dt = "float64" THEN "float32"
  ELSE IF dt = "int64" THEN "int32"
  ELSE dt

\* a returned call with a wrongly typed argument
WronglyTyped ==
  /\ Returned
  /\ \/ op = "threefry_2x32" /\ \E i \in 1 .. 3 : args[3][i] # "uint32"
     \/ op = "uniform" /\ Canonical(args[3]) \notin {"float32", "float64"}
     \/ op = "randint" /\ Canonical(args[5]) \notin {"int32", "int64"}
     \/ op = "bernoulli" /\ Canonical(args[3]) \notin {"float16", "float32", "float64"}

\* C22: a wrongly typed argument is rejected with an error and no value is
\* returned: threefry_2x32 when a key word or the counter is not uint32,
\* uniform when dtype is not floating or not 32/64 bits wide, randint when
\* dtype is not integer or not 32/64 bits wide, bernoulli when p does not
\* have a floating dtype.
C22_WrongTypeRejected ==
  WronglyTyped =>
    /\ res.raised # ""
    /\ SubSeq(res.raised, 1, 9) = "TypeError"
    /\ ~res.held
    /\ res.value = <<>>

\* bernoulli with an integer p
C22_Witness ==
  /\ WronglyTyped
  /\ op = "bernoulli"
  /\ args[3] = "int32"
  /\ res.raised # ""

---------------------------------------------------------------------------
(* gamma over an array                                                     *)

\* the loop state of one lane run alone until its own predicate is false,
\* for MaxRuns + 1 runs of the body at most
RECURSIVE RunAlone(_, _, _)
RunAlone(l, dtype, fuel) ==
  IF fuel = 0 \/ ~_cond_fn(l) THEN l
  ELSE CHOOSE r \in {RunAlone(n, dtype, fuel - 1) :
                      n \in {lane_body(l, dtype)}} : TRUE

\* element i of gamma from key, n, i and a[i] alone
LaneAlone(key, n, i, alpha, dtype) ==
  gamma_result(RunAlone(lane_setup(split(key, n)[i], alpha, dtype), dtype,
                        MaxRuns + 1))

LanesReturned ==
  Returned /\ op = "gamma" /\ locals.fn = "gamma" /\ locals.stage = "done"
           /\ "lanes" \in DOMAIN locals

====
